---- MODULE Spec2Model ----
(***************************************************************************)
(* Rating engine of the rpi repository: the Match model, the team registry, *)
(* the ranking indices (ripper/indices) and the RPI calculations            *)
(* (rpi/calculations.py and build/lib/ripper/calculations.py).              *)
(*                                                                         *)
(* Conventions.  Python None is the string NoneT.  A Python call either     *)
(* returns a value or raises: a call's outcome is the record                *)
(* [status, out] with status "ok" or the name of the exception raised.      *)
(* Tuples keep Python's layout shifted to 1-based positions: the entry      *)
(* (rank, team, value) is <<rank, team, value>>, so Python x[2] is x[3].    *)
(* A Python float that is a quotient of two small integers is the pair      *)
(* <<num, den>>; two floats are equal iff the cross products are equal.     *)
(***************************************************************************)
EXTENDS Integers, Sequences, FiniteSets, TLC

VARIABLES
    matches,    \* the match list handed to the functions
    pkg,        \* the package whose Match class the list holds
    result,     \* the call made on the list and its outcome
    K_FACTOR,       \* ripper.constants.K_FACTOR
    INITIAL_RATING, \* ripper.constants.INITIAL_RATING
    pool,       \* the multiprocessing.Pool of calculate_statistics at work
    iterator    \* the date iterator of ripper.tools.date in use

vars == <<matches, pkg, result, K_FACTOR, INITIAL_RATING, pool, iterator>>

(* ------------------------------ bounds -------------------------------- *)

\* Longest match list handed to an index.
MaxMatches == 2

\* Longest match list handed to the RPI calculations.
MaxCalcMatches == 2

\* Team names; Ord is Python's string order on them.
Teams == {"A", "B", "C"}

Ord == [t \in Teams |-> CASE t = "A" -> 1 [] t = "B" -> 2 [] t = "C" -> 3]

\* Scores a side can have.
Scores == {0, 1}

NoneT == "None"

\* game_state arguments given to the Match constructor.
GameStateArgs == {NoneT, "pre", "final"}

\* Category tags of the matches of the build tree.
Genders == {"men", "women"}

\* Arguments of the calls on the calculations.  The functions compare team
\* names and genders for equality only, and the lists range over all teams
\* and genders, so one target and one gender stand for all.
QueryGenders == {"men"}

Targets == {"A"}

SkipArgs == {NoneT, "", "A", "B"}

Precisions == {1, 2}

(* --------------------------- Match model ------------------------------ *)

\* ripper.models.match.Match.__init__: a falsy game_state becomes 'final'.
Match(home_team, away_team, home_score, away_score, game_state) ==
    [home_team |-> home_team, away_team |-> away_team,
     home_score |-> home_score, away_score |-> away_score,
     game_state |-> IF game_state = NoneT \/ game_state = "" THEN "final"
                    ELSE game_state]

is_finished(m) == m.game_state = "final"

is_live(m) == m.game_state = "live"

is_upcoming(m) == m.game_state = "pre"

\* winner without its is_finished test.
winner_in_any_state(m) ==
    IF m.home_score > m.away_score THEN m.home_team
    ELSE IF m.away_score > m.home_score THEN m.away_team
    ELSE NoneT

winner(m) ==
    IF ~is_finished(m) THEN NoneT
    ELSE IF m.home_score > m.away_score THEN m.home_team
    ELSE IF m.away_score > m.home_score THEN m.away_team
    ELSE NoneT

loser(m) ==
    IF ~is_finished(m) THEN NoneT
    ELSE IF m.home_score < m.away_score THEN m.home_team
    ELSE IF m.away_score < m.home_score THEN m.away_team
    ELSE NoneT

is_draw(m) ==
    IF ~is_finished(m) THEN FALSE
    ELSE m.home_score = m.away_score

contains(m, team) == team = m.home_team \/ team = m.away_team

(* --------------------------- team registry ---------------------------- *)

RECURSIVE AppearanceOrder(_, _)
\* The names of ms in the order of their first appearance, after those seen.
AppearanceOrder(ms, seen) ==
    IF ms = <<>> THEN seen
    ELSE LET known(q, t) == \E i \in DOMAIN q : q[i] = t
             s1 == IF known(seen, Head(ms).home_team) THEN seen
                   ELSE Append(seen, Head(ms).home_team)
             s2 == IF known(s1, Head(ms).away_team) THEN s1
                   ELSE Append(s1, Head(ms).away_team)
         IN  AppearanceOrder(Tail(ms), s2)

\* list_team_names without its sort.
list_team_names_unsorted(ms) == AppearanceOrder(ms, <<>>)

RECURSIVE SortedNames(_)
\* list.sort() of a set of names: ascending string order.
SortedNames(S) ==
    IF S = {} THEN <<>>
    ELSE LET least == CHOOSE t \in S : \A u \in S : Ord[t] <= Ord[u]
         IN  <<least>> \o SortedNames(S \ {least})

\* ripper.utils.list_team_names
list_team_names(ms) ==
    SortedNames({ms[i].home_team : i \in DOMAIN ms}
                \cup {ms[i].away_team : i \in DOMAIN ms})

(* ------------------------- outcomes and sorting ----------------------- *)

Ok(out) == [status |-> "ok", out |-> out]

Raise(exc) == [status |-> exc, out |-> <<>>]

\* Python's < on two floats held as quotients <<num, den>> with den > 0.
FloatLt(p, q) == p[1] * q[2] < q[1] * p[2]

FloatEq(p, q) == p[1] * q[2] = q[1] * p[2]

\* The sort keys of the indices, as the strict order they induce.
\*   "desc":   key=lambda x: (-x[2], x[1])  on (rank, team, int)
\*   "asc":    key=lambda x: (x[2], x[1])   on (rank, team, int)
\*   "fdesc":  key=lambda x: (-x[2], x[1])  on (rank, team, float)
\*   "record": key=lambda x: (-x[4], x[0])  on (team, wins, losses, draws, points)
\*   "rating": key=lambda x: (-x[1], x[0])  on (team, float)
KeyLt(key, x, y) ==
    CASE key = "desc"   -> \/ x[3] > y[3]
                           \/ x[3] = y[3] /\ Ord[x[2]] < Ord[y[2]]
      [] key = "asc"    -> \/ x[3] < y[3]
                           \/ x[3] = y[3] /\ Ord[x[2]] < Ord[y[2]]
      [] key = "fdesc"  -> \/ FloatLt(y[3], x[3])
                           \/ FloatEq(x[3], y[3]) /\ Ord[x[2]] < Ord[y[2]]
      [] key = "record" -> \/ x[5] > y[5]
                           \/ x[5] = y[5] /\ Ord[x[1]] < Ord[y[1]]
      [] key = "rating" -> \/ FloatLt(y[2], x[2])
                           \/ FloatEq(x[2], y[2]) /\ Ord[x[1]] < Ord[y[1]]

RECURSIVE Insert(_, _, _)
\* x goes before the first element that is not strictly smaller than it.
Insert(x, s, key) ==
    IF s = <<>> THEN <<x>>
    ELSE IF ~KeyLt(key, Head(s), x) THEN <<x>> \o s
    ELSE <<Head(s)>> \o Insert(x, Tail(s), key)

RECURSIVE Sorted(_, _)
\* Python sorted(s, key=...): ascending in the key, and stable (an element
\* stays before the later elements of equal key).
Sorted(s, key) ==
    IF s = <<>> THEN <<>>
    ELSE Insert(Head(s), Sorted(Tail(s), key), key)

\* dict.items() of a dict built over the name list: insertion order.
Items(names, d) == [i \in DOMAIN names |-> <<names[i], d[names[i]]>>]

\* [(i + 1, team, v) for i, (team, v) in enumerate(items)]
Enumerate(items) == [i \in DOMAIN items |-> <<i, items[i][1], items[i][2]>>]

(* ------------------------------ WinsIndex ----------------------------- *)

RECURSIVE WinsLoop(_, _)
\* for match in matches: team_wins[match.winner()] += 1
WinsLoop(ms, team_wins) ==
    IF ms = <<>> THEN Ok(team_wins)
    ELSE LET w == winner(Head(ms))
         IN  IF w \notin DOMAIN team_wins THEN Raise("KeyError")
             ELSE WinsLoop(Tail(ms), [team_wins EXCEPT ![w] = @ + 1])

ZeroDict(names) == [t \in {names[i] : i \in DOMAIN names} |-> 0]

WinsIndex_calculate(ms) ==
    LET names == list_team_names(ms)
        loop  == WinsLoop(ms, ZeroDict(names))
    IN  IF loop.status # "ok" THEN Raise(loop.status)
        ELSE Ok(Sorted(Enumerate(Items(names, loop.out)), "desc"))

(* ----------------------------- LossesIndex ---------------------------- *)

RECURSIVE LossesLoop(_, _)
\* for match in matches: team_losses[match.loser()] += 1
LossesLoop(ms, team_losses) ==
    IF ms = <<>> THEN Ok(team_losses)
    ELSE LET l == loser(Head(ms))
         IN  IF l \notin DOMAIN team_losses THEN Raise("KeyError")
             ELSE LossesLoop(Tail(ms), [team_losses EXCEPT ![l] = @ + 1])

LossesIndex_calculate(ms) ==
    LET names == list_team_names(ms)
        loop  == LossesLoop(ms, ZeroDict(names))
    IN  IF loop.status # "ok" THEN Raise(loop.status)
        ELSE Ok(Sorted(Enumerate(Items(names, loop.out)), "asc"))

(* ------------------------- MatchesPlayedIndex ------------------------- *)

RECURSIVE MatchesPlayedLoop_finished_only(_, _)
\* The loop counting the finished matches only.
MatchesPlayedLoop_finished_only(ms, team_matches) ==
    IF ms = <<>> THEN team_matches
    ELSE LET m  == Head(ms)
             d1 == [team_matches EXCEPT ![m.home_team] = @ + 1]
         IN  IF ~is_finished(m)
             THEN MatchesPlayedLoop_finished_only(Tail(ms), team_matches)
             ELSE MatchesPlayedLoop_finished_only(
                      Tail(ms), [d1 EXCEPT ![m.away_team] = @ + 1])

RECURSIVE MatchesPlayedLoop(_, _)
\* team_matches[match.home_team] += 1; team_matches[match.away_team] += 1
MatchesPlayedLoop(ms, team_matches) ==
    IF ms = <<>> THEN team_matches
    ELSE LET m  == Head(ms)
             d1 == [team_matches EXCEPT ![m.home_team] = @ + 1]
         IN  MatchesPlayedLoop(Tail(ms), [d1 EXCEPT ![m.away_team] = @ + 1])

MatchesPlayedIndex_calculate(ms) ==
    LET names == list_team_names(ms)
        team_matches == MatchesPlayedLoop(ms, ZeroDict(names))
    IN  Ok(Sorted(Enumerate(Items(names, team_matches)), "desc"))

(* ------------------------------ DrawsIndex ---------------------------- *)

RECURSIVE DrawsLoop(_, _)
\* if match.is_draw(): both teams' entries += 1
DrawsLoop(ms, team_draws) ==
    IF ms = <<>> THEN team_draws
    ELSE LET m  == Head(ms)
             d1 == [team_draws EXCEPT ![m.home_team] = @ + 1]
         IN  DrawsLoop(Tail(ms),
                       IF is_draw(m) THEN [d1 EXCEPT ![m.away_team] = @ + 1]
                       ELSE team_draws)

\* sorted(team_draws.items(), key=lambda x: (x[2], x[1])): the key reads the
\* third component of each (team, draws) pair, which a pair does not have.
DrawsSort(items) ==
    IF \E i \in DOMAIN items : Len(items[i]) < 3 THEN Raise("IndexError")
    ELSE Ok(Sorted(items, "asc"))

\* The value of sorted_results is not used: the returned list enumerates
\* team_draws.items() itself.
DrawsIndex_calculate(ms) ==
    LET names == list_team_names(ms)
        team_draws == DrawsLoop(ms, ZeroDict(names))
        sorted_results == DrawsSort(Items(names, team_draws))
    IN  IF sorted_results.status # "ok" THEN Raise(sorted_results.status)
        ELSE Ok(Enumerate(Items(names, team_draws)))

(* -------------------------- WinPercentageIndex ------------------------ *)

\* wins[i][2] / matches_played[i][2]
Divide(num, den) ==
    IF den = 0 THEN Raise("ZeroDivisionError") ELSE Ok(<<num, den>>)

RECURSIVE WinPercentageInner(_, _, _, _, _)
\* for i in range(len(wins)): if wins[i][1] == team_name: ... (i is 1-based)
WinPercentageInner(i, team_name, wins, matches_played, twp) ==
    IF i > Len(wins) THEN Ok(twp)
    ELSE IF wins[i][2] # team_name
         THEN WinPercentageInner(i + 1, team_name, wins, matches_played, twp)
    ELSE LET q == Divide(wins[i][3], matches_played[i][3])
         IN  IF q.status # "ok" THEN Raise(q.status)
             ELSE WinPercentageInner(i + 1, team_name, wins, matches_played,
                                     [twp EXCEPT ![team_name] = q.out])

RECURSIVE WinPercentageOuter(_, _, _, _, _)
\* for team_name, _ in team_win_percentage.items(): ... (k walks the names)
WinPercentageOuter(k, names, wins, matches_played, twp) ==
    IF k > Len(names) THEN Ok(twp)
    ELSE LET r == WinPercentageInner(1, names[k], wins, matches_played, twp)
         IN  IF r.status # "ok" THEN Raise(r.status)
             ELSE WinPercentageOuter(k + 1, names, wins, matches_played, r.out)

WinPercentageIndex_calculate(ms) ==
    LET wins == WinsIndex_calculate(ms)
        matches_played == MatchesPlayedIndex_calculate(ms)
        names == list_team_names(ms)
        zero == [t \in {names[i] : i \in DOMAIN names} |-> <<0, 1>>]
    IN  IF wins.status # "ok" THEN Raise(wins.status)
        ELSE IF matches_played.status # "ok" THEN Raise(matches_played.status)
        ELSE LET twp == WinPercentageOuter(1, names, wins.out,
                                           matches_played.out, zero)
             IN  IF twp.status # "ok" THEN Raise(twp.status)
                 ELSE Ok(Sorted(Enumerate(Items(names, twp.out)), "fdesc"))

(* ------------------------------ RecordIndex --------------------------- *)

Record(wins, losses, draws) == [wins |-> wins, losses |-> losses, draws |-> draws]

\* f"{wins}-{losses}-{draws}": the three decimal numerals joined by '-'
Record_str(r) == <<r.wins, "-", r.losses, "-", r.draws>>

Record_points(r) == r.wins * 3 + r.draws

RECURSIVE RecordLoop(_, _)
RecordLoop(ms, records) ==
    IF ms = <<>> THEN records
    ELSE LET m == Head(ms)
             h == m.home_team
             a == m.away_team
             hw == [records EXCEPT ![h].wins = @ + 1]
             aw == [records EXCEPT ![a].wins = @ + 1]
             hd == [records EXCEPT ![h].draws = @ + 1]
         IN  RecordLoop(Tail(ms),
                 IF winner(m) = h THEN [hw EXCEPT ![a].losses = @ + 1]
                 ELSE IF winner(m) = a THEN [aw EXCEPT ![h].losses = @ + 1]
                 ELSE [hd EXCEPT ![a].draws = @ + 1])

RecordIndex_calculate(ms) ==
    LET team_name == list_team_names(ms)
        records == RecordLoop(ms, [t \in {team_name[i] : i \in DOMAIN team_name}
                                      |-> Record(0, 0, 0)])
        res == [i \in DOMAIN team_name |->
                   LET r == records[team_name[i]]
                   IN  <<team_name[i], r.wins, r.losses, r.draws, Record_points(r)>>]
        sorted_result == Sorted(res, "record")
    IN  Ok([i \in DOMAIN sorted_result |->
               <<i, sorted_result[i][1],
                 Record_str(Record(sorted_result[i][2], sorted_result[i][3],
                                   sorted_result[i][4]))>>])

(* =================== RPI calculations: float arithmetic =============== *)

\* A float is held as the exact quotient <<num, den>>, den > 0.  wp and owp
\* round a quotient of counts; within the bounds of the model its numerator
\* and denominator are small, the rounding of the exact quotient and of its
\* nearest double agree, and a quotient that lies exactly halfway is a
\* multiple of 1/8, which a double holds exactly, so that round() takes it
\* to the even neighbour.  oowp and rpi combine values that are already
\* rounded: when such a combination is exactly halfway between two decimals
\* and its operands are not exact doubles, Python rounds by the error of
\* the doubles (round(0.25 * 0.2, 1) is 0.1), the model to the even
\* neighbour; there the last digit of the model's value may differ by one.

RECURSIVE Pow10(_)
Pow10(n) == IF n = 0 THEN 1 ELSE 10 * Pow10(n - 1)

\* Python round(x, ndigits): nearest multiple of 10^-ndigits, halves to even.
round(x, ndigits) ==
    LET scaled == x[1] * Pow10(ndigits)
        k      == scaled \div x[2]
        rem    == scaled - k * x[2]
    IN  IF 2 * rem < x[2] THEN <<k, Pow10(ndigits)>>
        ELSE IF 2 * rem > x[2] THEN <<k + 1, Pow10(ndigits)>>
        ELSE IF k % 2 = 0 THEN <<k, Pow10(ndigits)>>
        ELSE <<k + 1, Pow10(ndigits)>>

RECURSIVE GCD(_, _)
GCD(a, b) == IF b = 0 THEN a ELSE GCD(b, a % b)

\* The same quotient in lowest terms (keeps the integers small).
Lowest(p) ==
    LET g == GCD(p[1], p[2])
    IN  IF g = 0 THEN p ELSE <<p[1] \div g, p[2] \div g>>

FloatAdd(p, q) ==
    LET a == Lowest(p)
        b == Lowest(q)
        g == GCD(a[2], b[2])
    IN  Lowest(<<a[1] * (b[2] \div g) + b[1] * (a[2] \div g), (a[2] \div g) * b[2]>>)

\* p * float(n)
FloatTimes(p, n) == <<p[1] * n, p[2]>>

\* p / float(n), n > 0
FloatOver(p, n) == <<p[1], p[2] * n>>

\* `skip_team_name and len(skip_team_name) > 0`
Truthy(name) == name # NoneT /\ name # ""

\* The distinct elements of a list in order of first occurrence: the key
\* order of a dict filled by walking the list.
RECURSIVE DictKeys(_)
DictKeys(s) ==
    IF s = <<>> THEN <<>>
    ELSE LET rest == DictKeys(SubSeq(s, 1, Len(s) - 1))
             x    == s[Len(s)]
         IN  IF \E i \in DOMAIN rest : rest[i] = x THEN rest
             ELSE Append(rest, x)

(* ======================= rpi/calculations.py ========================== *)
(* Works on rpi.models.match.Match, whose methods are those of              *)
(* ripper.models.match.Match above.                                         *)

RECURSIVE rpi_get_wins_for_team(_, _, _)
rpi_get_wins_for_team(ms, team_name, skip_team_name) ==
    IF ms = <<>> THEN 0
    ELSE LET m == Head(ms)
             rest == rpi_get_wins_for_team(Tail(ms), team_name, skip_team_name)
         IN  IF ~is_finished(m) THEN rest
             ELSE IF ~contains(m, team_name) THEN rest
             ELSE IF Truthy(skip_team_name) /\ contains(m, skip_team_name) THEN rest
             ELSE IF winner(m) = team_name THEN rest + 1
             ELSE rest

RECURSIVE rpi_get_losses_for_team(_, _, _)
rpi_get_losses_for_team(ms, team_name, skip_team_name) ==
    IF ms = <<>> THEN 0
    ELSE LET m == Head(ms)
             rest == rpi_get_losses_for_team(Tail(ms), team_name, skip_team_name)
         IN  IF ~is_finished(m) THEN rest
             ELSE IF ~contains(m, team_name) THEN rest
             ELSE IF Truthy(skip_team_name) /\ contains(m, skip_team_name) THEN rest
             ELSE IF loser(m) = team_name THEN rest + 1
             ELSE rest

RECURSIVE rpi_get_draws_for_team(_, _, _)
rpi_get_draws_for_team(ms, team_name, skip_team_name) ==
    IF ms = <<>> THEN 0
    ELSE LET m == Head(ms)
             rest == rpi_get_draws_for_team(Tail(ms), team_name, skip_team_name)
         IN  IF ~is_finished(m) THEN rest
             ELSE IF ~contains(m, team_name) THEN rest
             ELSE IF Truthy(skip_team_name) /\ contains(m, skip_team_name) THEN rest
             ELSE IF is_draw(m) THEN rest + 1
             ELSE rest

RECURSIVE rpi_get_opponents(_, _)
rpi_get_opponents(ms, team) ==
    IF ms = <<>> THEN <<>>
    ELSE LET m == Head(ms)
             rest == rpi_get_opponents(Tail(ms), team)
         IN  IF ~is_finished(m) /\ ~contains(m, team) THEN rest
             ELSE (IF m.home_team = team THEN <<m.away_team>> ELSE <<>>)
                  \o (IF m.away_team = team THEN <<m.home_team>> ELSE <<>>)
                  \o rest

RECURSIVE rpi_get_meeting_count(_, _, _)
rpi_get_meeting_count(team1, team2, ms) ==
    IF ms = <<>> THEN 0
    ELSE LET m == Head(ms)
             rest == rpi_get_meeting_count(team1, team2, Tail(ms))
         IN  IF ~is_finished(m) THEN rest
             ELSE IF ~contains(m, team1) THEN rest
             ELSE IF ~contains(m, team2) THEN rest
             ELSE rest + 1

\* No test for a zero total: the division raises for it.
rpi_wp(ms, target_team_name, skip_team_name, ndigits) ==
    LET wins   == rpi_get_wins_for_team(ms, target_team_name, skip_team_name)
        losses == rpi_get_losses_for_team(ms, target_team_name, skip_team_name)
        draws  == rpi_get_draws_for_team(ms, target_team_name, skip_team_name)
        team_total_matches_played == wins + losses + draws
    IN  IF team_total_matches_played = 0 THEN Raise("ZeroDivisionError")
        ELSE Ok(round(<<2 * wins + draws, 2 * team_total_matches_played>>, ndigits))

RECURSIVE rpi_owp_percentages(_, _, _)
\* First loop of owp: the dict opponent -> winning percentage, as the list
\* of its (key, value) pairs; an opponent without a counted match is left out.
rpi_owp_percentages(opponent_names, ms, target_team_name) ==
    IF opponent_names = <<>> THEN <<>>
    ELSE LET opponent_name   == Head(opponent_names)
             opponent_wins   == rpi_get_wins_for_team(ms, opponent_name, target_team_name)
             opponent_losses == rpi_get_losses_for_team(ms, opponent_name, target_team_name)
             opponent_draws  == rpi_get_draws_for_team(ms, opponent_name, target_team_name)
             total_matches_played == opponent_wins + opponent_losses + opponent_draws
             rest == rpi_owp_percentages(Tail(opponent_names), ms, target_team_name)
         IN  IF total_matches_played = 0 THEN rest
             ELSE <<<<opponent_name,
                      <<2 * opponent_wins + opponent_draws, 2 * total_matches_played>>>>>>
                  \o rest

RECURSIVE rpi_weighted(_, _, _)
\* Second loop of owp and of oowp: [sum |-> sum_so_far, n |-> number_of_matches]
rpi_weighted(items, ms, target_team_name) ==
    IF items = <<>> THEN [sum |-> <<0, 1>>, n |-> 0]
    ELSE LET last == items[Len(items)]
             acc  == rpi_weighted(SubSeq(items, 1, Len(items) - 1), ms, target_team_name)
             meeting_count == rpi_get_meeting_count(target_team_name, last[1], ms)
         IN  [sum |-> FloatAdd(acc.sum, FloatTimes(last[2], meeting_count)),
              n   |-> acc.n + meeting_count]

rpi_owp(ms, target_team_name, ndigits) ==
    LET opponent_names == rpi_get_opponents(ms, target_team_name)
        items == rpi_owp_percentages(DictKeys(opponent_names), ms, target_team_name)
        acc   == rpi_weighted(items, ms, target_team_name)
    IN  IF acc.n = 0 THEN Ok(<<0, 1>>)
        ELSE Ok(round(FloatOver(acc.sum, acc.n), ndigits))

\* No test for a zero number_of_matches: the division raises for it.
rpi_oowp(ms, target_team_name, ndigits) ==
    LET opponent_names == rpi_get_opponents(ms, target_team_name)
        keys  == DictKeys(opponent_names)
        items == [i \in DOMAIN keys |-> <<keys[i], rpi_owp(ms, keys[i], ndigits).out>>]
        acc   == rpi_weighted(items, ms, target_team_name)
    IN  IF acc.n = 0 THEN Raise("ZeroDivisionError")
        ELSE Ok(round(FloatOver(acc.sum, acc.n), ndigits))

\* rpi of rpi/calculations.py: (wp * 0.25) + (owp * 0.50) + (oowp * 0.25), rounded
rpi_rpi(wp_value, owp_value, oowp_value, ndigits) ==
    round(FloatAdd(FloatAdd(FloatOver(wp_value, 4), FloatOver(owp_value, 2)),
                   FloatOver(oowp_value, 4)), ndigits)

\* rpi with the weights of wp and owp exchanged.
rpi_weights_exchanged(wp_value, owp_value, oowp_value, ndigits) ==
    round(FloatAdd(FloatAdd(FloatOver(wp_value, 2), FloatOver(owp_value, 4)),
                   FloatOver(oowp_value, 4)), ndigits)

\* rpi of the build tree's calculations.py, the same text.
rpi(wp_value, owp_value, oowp_value, ndigits) ==
    round(FloatAdd(FloatAdd(FloatOver(wp_value, 4), FloatOver(owp_value, 2)),
                   FloatOver(oowp_value, 4)), ndigits)

(* ============== build/lib/ripper/indices/colley_matrix.py ============= *)

\* A matrix is the sequence of its rows.  b is held in units of 0.5, so
\* that np.ones(n) is 2 everywhere and b[i] += 0.5 adds 1.

\* np.identity(n), without the factor 2.
ColleyIdentity(n) == [i \in 1 .. n |-> [j \in 1 .. n |-> IF i = j THEN 1 ELSE 0]]

\* np.identity(n) * 2
ColleyC0(n) == [i \in 1 .. n |-> [j \in 1 .. n |-> IF i = j THEN 2 ELSE 0]]

RECURSIVE ColleyLoop_one_cross_entry(_, _, _, _)
\* ColleyLoop without its line C[away_idx, home_idx] -= 1.
ColleyLoop_one_cross_entry(ms, team_index, C, b) ==
    IF ms = <<>> THEN [C |-> C, b |-> b]
    ELSE LET match == Head(ms)
             home_idx == team_index[match.home_team]
             away_idx == team_index[match.away_team]
             C1 == [C  EXCEPT ![home_idx][home_idx] = @ + 1]
             C2 == [C1 EXCEPT ![away_idx][away_idx] = @ + 1]
             C3 == [C2 EXCEPT ![home_idx][away_idx] = @ - 1]
             b1 == IF match.home_score > match.away_score
                   THEN [[b EXCEPT ![home_idx] = @ + 1] EXCEPT ![away_idx] = @ - 1]
                   ELSE [[b EXCEPT ![home_idx] = @ - 1] EXCEPT ![away_idx] = @ + 1]
         IN  ColleyLoop_one_cross_entry(Tail(ms), team_index, C3, b1)

RECURSIVE ColleyLoop(_, _, _, _)
\* for match in matches: the four entries of C, then b by the scores
ColleyLoop(ms, team_index, C, b) ==
    IF ms = <<>> THEN [C |-> C, b |-> b]
    ELSE LET match == Head(ms)
             home_idx == team_index[match.home_team]
             away_idx == team_index[match.away_team]
             C1 == [C  EXCEPT ![home_idx][home_idx] = @ + 1]
             C2 == [C1 EXCEPT ![away_idx][away_idx] = @ + 1]
             C3 == [C2 EXCEPT ![home_idx][away_idx] = @ - 1]
             C4 == [C3 EXCEPT ![away_idx][home_idx] = @ - 1]
             b1 == IF match.home_score > match.away_score
                   THEN [[b EXCEPT ![home_idx] = @ + 1] EXCEPT ![away_idx] = @ - 1]
                   ELSE [[b EXCEPT ![home_idx] = @ - 1] EXCEPT ![away_idx] = @ + 1]
         IN  ColleyLoop(Tail(ms), team_index, C4, b1)

\* M without its first row and its column j.
Minor(M, j) ==
    [i \in 1 .. Len(M) - 1 |->
        [k \in 1 .. Len(M) - 1 |-> IF k < j THEN M[i + 1][k] ELSE M[i + 1][k + 1]]]

RECURSIVE Det(_)
RECURSIVE DetRow(_, _)
\* The sum over the columns j .. n of the expansion along the first row.
DetRow(M, j) ==
    IF j > Len(M) THEN 0
    ELSE (IF j % 2 = 1 THEN 1 ELSE -1) * M[1][j] * Det(Minor(M, j)) + DetRow(M, j + 1)

Det(M) == IF Len(M) = 0 THEN 1 ELSE DetRow(M, 1)

\* np.linalg.solve(C, b): the solution of C r = b, computed here by
\* Cramer's rule in exact arithmetic; LinAlgError for a singular C.  LAPACK
\* returns doubles next to these quotients, so a rating that lies exactly
\* halfway between two hundredths (0.625) may be rounded either way by the
\* code; the model rounds it to the even neighbour.
linalg_solve(C, b) ==
    LET n == Len(C)
        d == Det(C)
        column(i) == [k \in 1 .. n |-> [j \in 1 .. n |-> IF j = i THEN b[k] ELSE C[k][j]]]
    IN  IF d = 0 THEN Raise("LinAlgError")
        ELSE Ok([i \in 1 .. n |->
                    IF d > 0 THEN Lowest(<<Det(column(i)), 2 * d>>)
                    ELSE Lowest(<<-Det(column(i)), -2 * d>>)])

\* calculate up to the end of its loop: teams, team_index, the initial C and
\* b, and what the loop makes of them.
ColleySystem(ms) ==
    LET teams == list_team_names(ms)
        team_index == [t \in {teams[i] : i \in DOMAIN teams} |->
                          CHOOSE i \in DOMAIN teams : teams[i] = t]
        n  == Len(teams)
    IN  ColleyLoop(ms, team_index, ColleyC0(n), [i \in 1 .. n |-> 2])

ColleyMatrixIndex_calculate(ms) ==
    LET teams == list_team_names(ms)
        n  == Len(teams)
        Cb == ColleySystem(ms)
        r  == linalg_solve(Cb.C, Cb.b)
    IN  IF r.status # "ok" THEN Raise(r.status)
        ELSE LET team_ratings == [i \in 1 .. n |-> <<teams[i], round(r.out[i], 2)>>]
             IN  Ok(Enumerate(Sorted(team_ratings, "rating")))

(* ============================ ripper/elo.py =========================== *)

\* 1 / (1 + 10 ** (d / 400)) in units of 10^-5, for d = -128 .. 128 (entry
\* d + 129).  K_FACTOR times the error of an entry is far from moving
\* a new rating across a rounding boundary; the entry for d = 0 is exact.
ExpectedScoreTable ==
    <<67630, 67504, 67378, 67251, 67124, 66997, 66869, 66742, 66614, 66486,
      66357, 66229, 66100, 65971, 65841, 65712, 65582, 65452, 65322, 65191,
      65060, 64929, 64798, 64667, 64535, 64403, 64271, 64139, 64006, 63874,
      63741, 63608, 63474, 63341, 63207, 63073, 62939, 62804, 62670, 62535,
      62400, 62265, 62130, 61994, 61858, 61723, 61586, 61450, 61314, 61177,
      61040, 60903, 60766, 60629, 60491, 60354, 60216, 60078, 59940, 59801,
      59663, 59524, 59386, 59247, 59108, 58968, 58829, 58690, 58550, 58410,
      58270, 58130, 57990, 57850, 57709, 57569, 57428, 57287, 57146, 57005,
      56864, 56723, 56582, 56440, 56298, 56157, 56015, 55873, 55731, 55589,
      55447, 55305, 55162, 55020, 54877, 54735, 54592, 54449, 54307, 54164,
      54021, 53878, 53735, 53592, 53448, 53305, 53162, 53018, 52875, 52732,
      52588, 52445, 52301, 52157, 52014, 51870, 51726, 51582, 51439, 51295,
      51151, 51007, 50863, 50720, 50576, 50432, 50288, 50144, 50000, 49856,
      49712, 49568, 49424, 49280, 49137, 48993, 48849, 48705, 48561, 48418,
      48274, 48130, 47986, 47843, 47699, 47555, 47412, 47268, 47125, 46982,
      46838, 46695, 46552, 46408, 46265, 46122, 45979, 45836, 45693, 45551,
      45408, 45265, 45123, 44980, 44838, 44695, 44553, 44411, 44269, 44127,
      43985, 43843, 43702, 43560, 43418, 43277, 43136, 42995, 42854, 42713,
      42572, 42431, 42291, 42150, 42010, 41870, 41730, 41590, 41450, 41310,
      41171, 41032, 40892, 40753, 40614, 40476, 40337, 40199, 40060, 39922,
      39784, 39646, 39509, 39371, 39234, 39097, 38960, 38823, 38686, 38550,
      38414, 38277, 38142, 38006, 37870, 37735, 37600, 37465, 37330, 37196,
      37061, 36927, 36793, 36659, 36526, 36392, 36259, 36126, 35994, 35861,
      35729, 35597, 35465, 35333, 35202, 35071, 34940, 34809, 34678, 34548,
      34418, 34288, 34159, 34029, 33900, 33771, 33643, 33514, 33386, 33258,
      33131, 33003, 32876, 32749, 32622, 32496, 32370>>

FloatSub(p, q) == FloatAdd(p, <<-q[1], q[2]>>)

initialize_ratings(teams) == [team \in teams |-> INITIAL_RATING]

expected_score(rating_a, rating_b) ==
    <<ExpectedScoreTable[(rating_b - rating_a) + 129], 100000>>

\* update_ratings with int() in the place of round().
update_ratings_truncating(rating_a, rating_b, score_a, score_b) ==
    LET expected_a == expected_score(rating_a, rating_b)
        expected_b == expected_score(rating_b, rating_a)
        new_rating_a == FloatAdd(<<rating_a, 1>>,
                                 FloatTimes(FloatSub(score_a, expected_a), K_FACTOR))
        new_rating_b == FloatAdd(<<rating_b, 1>>,
                                 FloatTimes(FloatSub(score_b, expected_b), K_FACTOR))
    IN  <<new_rating_a[1] \div new_rating_a[2], new_rating_b[1] \div new_rating_b[2]>>

\* The scores are 1, 0.5 or 0, held as quotients.
update_ratings(rating_a, rating_b, score_a, score_b) ==
    LET expected_a == expected_score(rating_a, rating_b)
        expected_b == expected_score(rating_b, rating_a)
        new_rating_a == FloatAdd(<<rating_a, 1>>,
                                 FloatTimes(FloatSub(score_a, expected_a), K_FACTOR))
        new_rating_b == FloatAdd(<<rating_b, 1>>,
                                 FloatTimes(FloatSub(score_b, expected_b), K_FACTOR))
    IN  <<round(new_rating_a, 0)[1], round(new_rating_b, 0)[1]>>

RECURSIVE EloLoop_unfinished_too(_, _)
\* The loop of process_matches_with_elo without its is_finished test.
EloLoop_unfinished_too(ms, ratings) ==
    IF ms = <<>> THEN ratings
    ELSE LET match == Head(ms)
             home_team == match.home_team
             away_team == match.away_team
             score_home == IF match.home_score = match.away_score THEN <<1, 2>>
                           ELSE IF match.home_score > match.away_score THEN <<1, 1>>
                           ELSE <<0, 1>>
             score_away == IF match.home_score = match.away_score THEN <<1, 2>>
                           ELSE IF match.away_score > match.home_score THEN <<1, 1>>
                           ELSE <<0, 1>>
             new == update_ratings(ratings[home_team], ratings[away_team],
                                   score_home, score_away)
         IN  EloLoop_unfinished_too(Tail(ms),
                 [[ratings EXCEPT ![home_team] = new[1]] EXCEPT ![away_team] = new[2]])

RECURSIVE EloLoop(_, _)
\* for match in matches: skip if not finished, else update both ratings
EloLoop(ms, ratings) ==
    IF ms = <<>> THEN ratings
    ELSE LET match == Head(ms)
             home_team == match.home_team
             away_team == match.away_team
             score_home == IF is_draw(match) THEN <<1, 2>>
                           ELSE IF winner(match) = home_team THEN <<1, 1>>
                           ELSE <<0, 1>>
             score_away == IF is_draw(match) THEN <<1, 2>>
                           ELSE IF winner(match) = away_team THEN <<1, 1>>
                           ELSE <<0, 1>>
             new == update_ratings(ratings[home_team], ratings[away_team],
                                   score_home, score_away)
         IN  IF ~is_finished(match) THEN EloLoop(Tail(ms), ratings)
             ELSE EloLoop(Tail(ms),
                     [[ratings EXCEPT ![home_team] = new[1]] EXCEPT ![away_team] = new[2]])

\* process_matches_with_elo taking the matches from the last to the first.
process_matches_with_elo_backwards(ms) ==
    LET teams == {ms[i].home_team : i \in DOMAIN ms}
                 \cup {ms[i].away_team : i \in DOMAIN ms}
    IN  EloLoop([i \in DOMAIN ms |-> ms[Len(ms) + 1 - i]], initialize_ratings(teams))

process_matches_with_elo(ms) ==
    LET teams == {ms[i].home_team : i \in DOMAIN ms}
                 \cup {ms[i].away_team : i \in DOMAIN ms}
    IN  EloLoop(ms, initialize_ratings(teams))

(* ========================= rpi/models/match.py ======================== *)

\* rpi.models.match.Match, a dataclass: every field is kept as given.  Its
\* methods are those of ripper.models.match.Match, word for word.
rpi_Match(home_team, away_team, home_score, away_score, game_state) ==
    [home_team |-> home_team, away_team |-> away_team,
     home_score |-> home_score, away_score |-> away_score,
     game_state |-> game_state]

(* ================ build/lib/ripper: Match and MatchDecorator ========== *)

\* A value handed to Score for home or away: <<type, text>>; <<"missing", "">>
\* stands for a keyword that is not given.
Missing == <<"missing", "">>

\* int(value) of a string of digits, and the int literals themselves.
IntOf(text) == CASE text = "0" -> 0 [] text = "1" -> 1 [] text = "2" -> 2

\* Score.convert_to_int (mode="before": runs on the values that are given).
convert_to_int(value) ==
    IF value[1] = "str" THEN
        IF value[2] = "" THEN Ok(<<"int", 0>>) ELSE Ok(<<"int", IntOf(value[2])>>)
    ELSE IF value[1] = "int" THEN Ok(<<"int", IntOf(value[2])>>)
    ELSE Raise("ValueError")

\* Score(home=..., away=...): a field that is not given takes its default 0
\* without validation; a validator that raises fails the construction.
Score(home, away) ==
    LET h == IF home = Missing THEN Ok(<<"int", 0>>) ELSE convert_to_int(home)
        a == IF away = Missing THEN Ok(<<"int", 0>>) ELSE convert_to_int(away)
    IN  IF h.status # "ok" \/ a.status # "ok" THEN Raise("ValidationError")
        ELSE Ok([home |-> h.out, away |-> a.out])

\* Match.check_scores, run after the fields are validated.
check_scores(status, score) ==
    IF status = "pre" THEN Ok(score)
    ELSE IF score.home[1] = "NoneType" \/ score.away[1] = "NoneType"
         THEN Raise("ValueError")
    ELSE Ok(score)


\* ripper.models.match.Match of the build tree (pydantic): gender, home and
\* away Team, Score, status.
BuildMatch(gender, home, away, score_home, score_away, status) ==
    [gender |-> gender, home |-> [name |-> home], away |-> [name |-> away],
     score |-> [home |-> score_home, away |-> score_away], status |-> status]

\* Match(gender=, home=, away=, score=, status=): score_arg is <<>> when no
\* score is given (the default Score()), else the two values handed to Score.
Match_new(gender, home, away, score_arg, status) ==
    LET score == IF score_arg = <<>> THEN Score(Missing, Missing)
                 ELSE Score(score_arg[1], score_arg[2])
    IN  IF score.status # "ok" THEN Raise("ValidationError")
        ELSE IF check_scores(status, score.out).status # "ok"
             THEN Raise("ValidationError")
        ELSE Ok(BuildMatch(gender, home, away, score.out.home[2], score.out.away[2],
                           status))

MatchDecorator_is_finished(m) == m.status \in {"finished", "final"}

MatchDecorator_is_live(m) == m.status = "live"

MatchDecorator_is_upcoming(m) == m.status = "pre"

MatchDecorator_winner(m) ==
    IF ~MatchDecorator_is_finished(m) THEN NoneT
    ELSE IF m.score.home > m.score.away THEN m.home.name
    ELSE IF m.score.away > m.score.home THEN m.away.name
    ELSE NoneT

MatchDecorator_loser(m) ==
    IF ~MatchDecorator_is_finished(m) THEN NoneT
    ELSE IF m.score.home < m.score.away THEN m.home.name
    ELSE IF m.score.away < m.score.home THEN m.away.name
    ELSE NoneT

MatchDecorator_is_draw(m) ==
    IF ~MatchDecorator_is_finished(m) THEN FALSE
    ELSE m.score.home = m.score.away

MatchDecorator_contains(m, team) == team = m.home.name \/ team = m.away.name

(* ================== build/lib/ripper/calculations.py ================== *)

RECURSIVE get_wins_for_team_never_skipping(_, _, _, _)
\* get_wins_for_team without its skip_team_name test.
get_wins_for_team_never_skipping(gender, ms, team_name, skip_team_name) ==
    IF ms = <<>> THEN 0
    ELSE LET m == Head(ms)
             rest == get_wins_for_team_never_skipping(gender, Tail(ms), team_name,
                                                      skip_team_name)
         IN  IF m.gender # gender THEN rest
             ELSE IF ~MatchDecorator_is_finished(m) THEN rest
             ELSE IF ~MatchDecorator_contains(m, team_name) THEN rest
             ELSE IF MatchDecorator_winner(m) = team_name THEN rest + 1
             ELSE rest

RECURSIVE get_wins_for_team(_, _, _, _)
get_wins_for_team(gender, ms, team_name, skip_team_name) ==
    IF ms = <<>> THEN 0
    ELSE LET m == Head(ms)
             rest == get_wins_for_team(gender, Tail(ms), team_name, skip_team_name)
         IN  IF m.gender # gender THEN rest
             ELSE IF ~MatchDecorator_is_finished(m) THEN rest
             ELSE IF ~MatchDecorator_contains(m, team_name) THEN rest
             ELSE IF Truthy(skip_team_name)
                     /\ MatchDecorator_contains(m, skip_team_name) THEN rest
             ELSE IF MatchDecorator_winner(m) = team_name THEN rest + 1
             ELSE rest

RECURSIVE get_losses_for_team(_, _, _, _)
get_losses_for_team(gender, ms, team_name, skip_team_name) ==
    IF ms = <<>> THEN 0
    ELSE LET m == Head(ms)
             rest == get_losses_for_team(gender, Tail(ms), team_name, skip_team_name)
         IN  IF m.gender # gender THEN rest
             ELSE IF ~MatchDecorator_is_finished(m) THEN rest
             ELSE IF ~MatchDecorator_contains(m, team_name) THEN rest
             ELSE IF Truthy(skip_team_name)
                     /\ MatchDecorator_contains(m, skip_team_name) THEN rest
             ELSE IF MatchDecorator_loser(m) = team_name THEN rest + 1
             ELSE rest

RECURSIVE get_draws_for_team(_, _, _, _)
get_draws_for_team(gender, ms, team_name, skip_team_name) ==
    IF ms = <<>> THEN 0
    ELSE LET m == Head(ms)
             rest == get_draws_for_team(gender, Tail(ms), team_name, skip_team_name)
         IN  IF m.gender # gender THEN rest
             ELSE IF ~MatchDecorator_is_finished(m) THEN rest
             ELSE IF ~MatchDecorator_contains(m, team_name) THEN rest
             ELSE IF Truthy(skip_team_name)
                     /\ MatchDecorator_contains(m, skip_team_name) THEN rest
             ELSE IF MatchDecorator_is_draw(m) THEN rest + 1
             ELSE rest

RECURSIVE get_opponents(_, _, _)
get_opponents(gender, ms, team) ==
    IF ms = <<>> THEN <<>>
    ELSE LET m == Head(ms)
             rest == get_opponents(gender, Tail(ms), team)
         IN  IF m.gender # gender THEN rest
             ELSE IF ~MatchDecorator_is_finished(m)
                     /\ ~MatchDecorator_contains(m, team) THEN rest
             ELSE (IF m.home.name = team THEN <<m.away.name>> ELSE <<>>)
                  \o (IF m.away.name = team THEN <<m.home.name>> ELSE <<>>)
                  \o rest

RECURSIVE get_meeting_count_any_state(_, _, _, _)
\* get_meeting_count without its is_finished test.
get_meeting_count_any_state(gender, team1, team2, ms) ==
    IF ms = <<>> THEN 0
    ELSE LET m == Head(ms)
             rest == get_meeting_count_any_state(gender, team1, team2, Tail(ms))
         IN  IF m.gender # gender THEN rest
             ELSE IF ~MatchDecorator_contains(m, team1) THEN rest
             ELSE IF ~MatchDecorator_contains(m, team2) THEN rest
             ELSE rest + 1

RECURSIVE get_meeting_count(_, _, _, _)
get_meeting_count(gender, team1, team2, ms) ==
    IF ms = <<>> THEN 0
    ELSE LET m == Head(ms)
             rest == get_meeting_count(gender, team1, team2, Tail(ms))
         IN  IF m.gender # gender THEN rest
             ELSE IF ~MatchDecorator_is_finished(m) THEN rest
             ELSE IF ~MatchDecorator_contains(m, team1) THEN rest
             ELSE IF ~MatchDecorator_contains(m, team2) THEN rest
             ELSE rest + 1

\* wp with a draw worth nothing instead of half a win.
wp_without_draws(gender, ms, target_team_name, skip_team_name, ndigits) ==
    LET wins   == get_wins_for_team(gender, ms, target_team_name, skip_team_name)
        losses == get_losses_for_team(gender, ms, target_team_name, skip_team_name)
        draws  == get_draws_for_team(gender, ms, target_team_name, skip_team_name)
        team_total_matches_played == wins + losses + draws
    IN  IF team_total_matches_played = 0 THEN <<0, 1>>
        ELSE round(<<wins, team_total_matches_played>>, ndigits)

wp(gender, ms, target_team_name, skip_team_name, ndigits) ==
    LET wins   == get_wins_for_team(gender, ms, target_team_name, skip_team_name)
        losses == get_losses_for_team(gender, ms, target_team_name, skip_team_name)
        draws  == get_draws_for_team(gender, ms, target_team_name, skip_team_name)
        team_total_matches_played == wins + losses + draws
    IN  IF team_total_matches_played = 0 THEN <<0, 1>>
        ELSE round(<<2 * wins + draws, 2 * team_total_matches_played>>, ndigits)

RECURSIVE owp_percentages_with_target(_, _, _, _)
\* The first loop with the opponents' matches against the target counted in.
owp_percentages_with_target(gender, opponent_names, ms, target_team_name) ==
    IF opponent_names = <<>> THEN <<>>
    ELSE LET opponent_name   == Head(opponent_names)
             opponent_wins   == get_wins_for_team(gender, ms, opponent_name, NoneT)
             opponent_losses == get_losses_for_team(gender, ms, opponent_name, NoneT)
             opponent_draws  == get_draws_for_team(gender, ms, opponent_name, NoneT)
             total_matches_played == opponent_wins + opponent_losses + opponent_draws
             rest == owp_percentages_with_target(gender, Tail(opponent_names), ms,
                                                 target_team_name)
         IN  IF total_matches_played = 0 THEN rest
             ELSE <<<<opponent_name,
                      <<2 * opponent_wins + opponent_draws, 2 * total_matches_played>>>>>>
                  \o rest

RECURSIVE owp_percentages(_, _, _, _)
\* First loop of owp: the dict opponent -> winning percentage, as the list
\* of its (key, value) pairs; an opponent without a counted match is left out.
owp_percentages(gender, opponent_names, ms, target_team_name) ==
    IF opponent_names = <<>> THEN <<>>
    ELSE LET opponent_name   == Head(opponent_names)
             opponent_wins   == get_wins_for_team(gender, ms, opponent_name, target_team_name)
             opponent_losses == get_losses_for_team(gender, ms, opponent_name, target_team_name)
             opponent_draws  == get_draws_for_team(gender, ms, opponent_name, target_team_name)
             total_matches_played == opponent_wins + opponent_losses + opponent_draws
             rest == owp_percentages(gender, Tail(opponent_names), ms, target_team_name)
         IN  IF total_matches_played = 0 THEN rest
             ELSE <<<<opponent_name,
                      <<2 * opponent_wins + opponent_draws, 2 * total_matches_played>>>>>>
                  \o rest

RECURSIVE weighted_once(_, _, _, _)
\* The second loop with every opponent met weighing 1.
weighted_once(gender, items, ms, target_team_name) ==
    IF items = <<>> THEN [sum |-> <<0, 1>>, n |-> 0]
    ELSE LET last == items[Len(items)]
             acc  == weighted_once(gender, SubSeq(items, 1, Len(items) - 1), ms,
                                   target_team_name)
             meeting_count ==
                 IF get_meeting_count(gender, target_team_name, last[1], ms) > 0
                 THEN 1 ELSE 0
         IN  [sum |-> FloatAdd(acc.sum, FloatTimes(last[2], meeting_count)),
              n   |-> acc.n + meeting_count]

RECURSIVE weighted(_, _, _, _)
\* Second loop of owp and of oowp: [sum |-> the weighted sum, n |-> number_of_matches]
weighted(gender, items, ms, target_team_name) ==
    IF items = <<>> THEN [sum |-> <<0, 1>>, n |-> 0]
    ELSE LET last == items[Len(items)]
             acc  == weighted(gender, SubSeq(items, 1, Len(items) - 1), ms, target_team_name)
             meeting_count == get_meeting_count(gender, target_team_name, last[1], ms)
         IN  [sum |-> FloatAdd(acc.sum, FloatTimes(last[2], meeting_count)),
              n   |-> acc.n + meeting_count]

\* owp dividing the weighted sum by the number of opponents weighed.
owp_over_opponents(gender, ms, target_team_name, ndigits) ==
    LET opponent_names == get_opponents(gender, ms, target_team_name)
        items == owp_percentages(gender, DictKeys(opponent_names), ms, target_team_name)
        acc   == weighted(gender, items, ms, target_team_name)
    IN  IF acc.n = 0 THEN <<0, 1>>
        ELSE round(FloatOver(acc.sum, Len(items)), ndigits)

owp(gender, ms, target_team_name, ndigits) ==
    LET opponent_names == get_opponents(gender, ms, target_team_name)
        items == owp_percentages(gender, DictKeys(opponent_names), ms, target_team_name)
        acc   == weighted(gender, items, ms, target_team_name)
    IN  IF acc.n = 0 THEN <<0, 1>>
        ELSE round(FloatOver(acc.sum, acc.n), ndigits)

oowp(gender, ms, target_team_name, ndigits) ==
    LET opponent_names == get_opponents(gender, ms, target_team_name)
        keys  == DictKeys(opponent_names)
        items == [i \in DOMAIN keys |-> <<keys[i], owp(gender, ms, keys[i], ndigits)>>]
        acc   == weighted(gender, items, ms, target_team_name)
    IN  IF acc.n = 0 THEN <<0, 1>>
        ELSE round(FloatOver(acc.sum, acc.n), ndigits)

(* ===================== build/lib/ripper/utils.py ====================== *)

build_list_team_names(ms) ==
    SortedNames({ms[i].home.name : i \in DOMAIN ms}
                \cup {ms[i].away.name : i \in DOMAIN ms})

\* Returns (team_name, statistics).
calculate_team_statistics(gender, ms, team_name, precision) ==
    LET wp_value   == wp(gender, ms, team_name, NoneT, precision)
        owp_value  == owp(gender, ms, team_name, precision)
        oowp_value == oowp(gender, ms, team_name, precision)
    IN  <<team_name,
          [wins   |-> get_wins_for_team(gender, ms, team_name, NoneT),
           losses |-> get_losses_for_team(gender, ms, team_name, NoneT),
           draws  |-> get_draws_for_team(gender, ms, team_name, NoneT),
           wp     |-> wp_value,
           owp    |-> owp_value,
           oowp   |-> oowp_value,
           rpi    |-> rpi(wp_value, owp_value, oowp_value, precision)]>>

\* dict(pool.map(calculate_team_statistics, team_names)): pool.map returns the
\* results in the order of team_names, and dict keeps one item per name.
calculate_statistics(gender, ms, precision) ==
    LET team_names == build_list_team_names(ms)
        results == [i \in DOMAIN team_names |->
                       calculate_team_statistics(gender, ms, team_names[i], precision)]
    IN  [t \in {results[i][1] : i \in DOMAIN results} |->
            (CHOOSE r \in {results[i] : i \in DOMAIN results} : r[1] = t)[2]]

\* dict(results): one key per first component, the last item of a key wins.
dict(results) ==
    [k \in {results[i][1] : i \in DOMAIN results} |->
        LET last == CHOOSE i \in DOMAIN results :
                       /\ results[i][1] = k
                       /\ \A j \in DOMAIN results : results[j][1] = k => j <= i
        IN  results[last][2]]

\* A result put into the slot that comes free first, whatever its task.
pool_set_by_arrival(value, i, obj) ==
    LET free == CHOOSE j \in DOMAIN value :
                   value[j] = <<>> /\ \A k \in DOMAIN value : value[k] = <<>> => j <= k
    IN  [value EXCEPT ![free] = obj]

\* pool.map collects the result of task i at position i of the list it
\* returns, whenever the task ends.
pool_set(value, i, obj) == [value EXCEPT ![i] = obj]

(* ========================= ripper/tools/date.py ======================= *)

\* A datetime: the date and the hour of the day.
Datetime(year, month, day, hour) ==
    [year |-> year, month |-> month, day |-> day, hour |-> hour]

\* datetime.MAXYEAR
MAXYEAR == 9999

IsLeap(year) == year % 4 = 0 /\ (year % 100 # 0 \/ year % 400 = 0)

DaysInMonth(year, month) ==
    IF month = 2 THEN (IF IsLeap(year) THEN 29 ELSE 28)
    ELSE IF month \in {4, 6, 9, 11} THEN 30 ELSE 31

\* dt + timedelta(days=1); OverflowError past the last day of MAXYEAR.
NextDay(dt) ==
    IF dt.day < DaysInMonth(dt.year, dt.month)
    THEN Ok([dt EXCEPT !.day = @ + 1])
    ELSE IF dt.month < 12 THEN Ok([dt EXCEPT !.day = 1, !.month = @ + 1])
    ELSE IF dt.year < MAXYEAR THEN Ok([dt EXCEPT !.day = 1, !.month = 1, !.year = @ + 1])
    ELSE Raise("OverflowError")

\* dt + timedelta(days=-1), for a dt after the first day of year 1.
PrevDay(dt) ==
    IF dt.day > 1 THEN Ok([dt EXCEPT !.day = @ - 1])
    ELSE IF dt.month > 1
         THEN Ok([dt EXCEPT !.month = @ - 1, !.day = DaysInMonth(dt.year, dt.month - 1)])
    ELSE Ok([dt EXCEPT !.year = @ - 1, !.month = 12, !.day = 31])

RECURSIVE timedelta_add(_, _)
\* dt + timedelta(days=days)
timedelta_add(dt, days) ==
    IF days = 0 THEN Ok(dt)
    ELSE LET one == IF days > 0 THEN NextDay(dt) ELSE PrevDay(dt)
         IN  IF one.status # "ok" THEN one
             ELSE timedelta_add(one.out, IF days > 0 THEN days - 1 ELSE days + 1)

\* The order of two datetimes: by date, then by the time of day.
DtKey(dt) == (((dt.year * 12 + dt.month - 1) * 31) + dt.day - 1) * 24 + dt.hour

DtGt(a, b) == DtKey(a) > DtKey(b)

\* No iterator built.
NoIterator ==
    [cls |-> "none", current_date |-> <<>>, end_date |-> <<>>, args |-> <<>>,
     yielded |-> <<>>, last |-> "none", stops |-> 0]

\* DateRangeIterator.__init__; yielded is the list the caller collects, last
\* the outcome of the latest next(), stops the StopIterations raised so far.
DateRangeIterator(start_date, end_date) ==
    Ok([cls |-> "DateRangeIterator", current_date |-> start_date,
        end_date |-> end_date, args |-> <<start_date, end_date>>,
        yielded |-> <<>>, last |-> "none", stops |-> 0])

\* DateCountIterator.__init__
DateCountIterator(start_date, days) ==
    LET end == timedelta_add(start_date, days - 1)
    IN  IF end.status # "ok" THEN Raise(end.status)
        ELSE Ok([cls |-> "DateCountIterator", current_date |-> start_date,
                 end_date |-> end.out, args |-> <<start_date, days>>,
                 yielded |-> <<>>, last |-> "none", stops |-> 0])

\* __next__ of DateRangeIterator and of DateCountIterator (the same body):
\* the iterator after the call.
next(it) ==
    IF DtGt(it.current_date, it.end_date)
    THEN [it EXCEPT !.last = "StopIteration", !.stops = @ + 1]
    ELSE LET date_tuple == <<it.current_date.year, it.current_date.month,
                             it.current_date.day>>
             later == NextDay(it.current_date)
         IN  IF later.status # "ok" THEN [it EXCEPT !.last = later.status]
             ELSE [it EXCEPT !.current_date = later.out,
                             !.yielded = Append(@, date_tuple),
                             !.last = "value"]

(* ---------------------------- state machine --------------------------- *)

\* No pool at work.
NoPool ==
    [state |-> "idle", gender |-> "", precision |-> 0, team_names |-> <<>>,
     taskqueue |-> <<>>, workers |-> <<>>, value |-> <<>>]

\* ripper/constants.py is not among the sources: the two constants elo.py
\* imports from it are fixed at import and unknown.  No function but those of
\* elo.py reads them; where elo.py plays no part they are held at one value.
KFactors == {15, 32}

InitialRatings == {1500, 1501}

ConstantsImported == K_FACTOR \in KFactors /\ INITIAL_RATING \in InitialRatings

ConstantsUnread == K_FACTOR = 32 /\ INITIAL_RATING = 1500

MatchInputs ==
    {Match(h, a, hs, as, gs) :
        h \in Teams, a \in Teams, hs \in Scores, as \in Scores,
        gs \in GameStateArgs}

RECURSIVE SeqsUpTo(_, _)
SeqsUpTo(S, n) ==
    IF n = 0 THEN {<<>>}
    ELSE LET shorter == SeqsUpTo(S, n - 1)
         IN  shorter \cup {Append(s, x) : s \in shorter, x \in S}

NoCall == [call |-> "none", args |-> <<>>, status |-> "ok", out |-> <<>>]

Returned(call, r) == [call |-> call, args |-> <<>>, status |-> r.status, out |-> r.out]

Called(call, args, r) == [call |-> call, args |-> args, status |-> r.status, out |-> r.out]

Init ==
    /\ matches \in SeqsUpTo({m \in MatchInputs : m.home_team # m.away_team},
                            MaxMatches)
    /\ pkg = "ripper"
    /\ result = NoCall
    /\ ConstantsUnread
    /\ pool = NoPool
    /\ iterator = NoIterator

CalcWins ==
    /\ result' = Returned("WinsIndex", WinsIndex_calculate(matches))
    /\ UNCHANGED <<matches, pkg, K_FACTOR, INITIAL_RATING, pool, iterator>>

CalcLosses ==
    /\ result' = Returned("LossesIndex", LossesIndex_calculate(matches))
    /\ UNCHANGED <<matches, pkg, K_FACTOR, INITIAL_RATING, pool, iterator>>

CalcDraws ==
    /\ result' = Returned("DrawsIndex", DrawsIndex_calculate(matches))
    /\ UNCHANGED <<matches, pkg, K_FACTOR, INITIAL_RATING, pool, iterator>>

CalcMatchesPlayed ==
    /\ result' = Returned("MatchesPlayedIndex", MatchesPlayedIndex_calculate(matches))
    /\ UNCHANGED <<matches, pkg, K_FACTOR, INITIAL_RATING, pool, iterator>>

CalcWinPercentage ==
    /\ result' = Returned("WinPercentageIndex", WinPercentageIndex_calculate(matches))
    /\ UNCHANGED <<matches, pkg, K_FACTOR, INITIAL_RATING, pool, iterator>>

CalcRecord ==
    /\ result' = Returned("RecordIndex", RecordIndex_calculate(matches))
    /\ UNCHANGED <<matches, pkg, K_FACTOR, INITIAL_RATING, pool, iterator>>

Next ==
    \/ CalcWins
    \/ CalcLosses
    \/ CalcDraws
    \/ CalcMatchesPlayed
    \/ CalcWinPercentage
    \/ CalcRecord

Spec == Init /\ [][Next]_vars

(* ------------------- state machine of the calculations ---------------- *)

\* A match that is not final carries the blank score, 0-0
\* (home.get("score", 0); Score.convert_to_int turns "" into 0).
RpiMatchInputs ==
    {Match(h, a, hs, as, gs) :
        h \in Teams, a \in Teams, hs \in Scores, as \in Scores,
        gs \in {"pre", "final"}}

BuildMatchInputs ==
    {BuildMatch(g, h, a, hs, as, st) :
        g \in Genders, h \in Teams, a \in Teams, hs \in Scores, as \in Scores,
        st \in {"pre", "final"}}

\* One behaviour is one call made on one list.
InitCalc ==
    /\ \/ /\ pkg = "rpi"
          /\ matches \in SeqsUpTo({m \in RpiMatchInputs :
                                      /\ m.home_team # m.away_team
                                      /\ \/ m.game_state = "final"
                                         \/ (m.home_score = 0 /\ m.away_score = 0)},
                                  MaxCalcMatches)
       \/ /\ pkg = "build"
          /\ matches \in SeqsUpTo({m \in BuildMatchInputs :
                                      /\ m.home.name # m.away.name
                                      /\ \/ m.status = "final"
                                         \/ (m.score.home = 0 /\ m.score.away = 0)},
                                  MaxCalcMatches)
    /\ result = NoCall
    /\ ConstantsUnread
    /\ pool = NoPool
    /\ iterator = NoIterator

RpiCall(call, args, r) ==
    /\ pkg = "rpi"
    /\ result.call = "none"
    /\ result' = Called(call, args, r)
    /\ UNCHANGED <<matches, pkg, K_FACTOR, INITIAL_RATING, pool, iterator>>

BuildCall(call, args, r) ==
    /\ pkg = "build"
    /\ result.call = "none"
    /\ result' = Called(call, args, r)
    /\ UNCHANGED <<matches, pkg, K_FACTOR, INITIAL_RATING, pool, iterator>>

RpiGetWins ==
    \E t \in Targets, skip \in SkipArgs :
        RpiCall("rpi_get_wins_for_team", <<t, skip>>,
                Ok(rpi_get_wins_for_team(matches, t, skip)))

RpiGetLosses ==
    \E t \in Targets, skip \in SkipArgs :
        RpiCall("rpi_get_losses_for_team", <<t, skip>>,
                Ok(rpi_get_losses_for_team(matches, t, skip)))

RpiGetDraws ==
    \E t \in Targets, skip \in SkipArgs :
        RpiCall("rpi_get_draws_for_team", <<t, skip>>,
                Ok(rpi_get_draws_for_team(matches, t, skip)))

RpiWp ==
    \E t \in Targets, skip \in SkipArgs, nd \in Precisions :
        RpiCall("rpi_wp", <<t, skip, nd>>, rpi_wp(matches, t, skip, nd))

GetWins ==
    \E g \in QueryGenders, t \in Targets, skip \in SkipArgs :
        BuildCall("get_wins_for_team", <<g, t, skip>>,
                  Ok(get_wins_for_team(g, matches, t, skip)))

GetLosses ==
    \E g \in QueryGenders, t \in Targets, skip \in SkipArgs :
        BuildCall("get_losses_for_team", <<g, t, skip>>,
                  Ok(get_losses_for_team(g, matches, t, skip)))

GetDraws ==
    \E g \in QueryGenders, t \in Targets, skip \in SkipArgs :
        BuildCall("get_draws_for_team", <<g, t, skip>>,
                  Ok(get_draws_for_team(g, matches, t, skip)))

Wp ==
    \E g \in QueryGenders, t \in Targets, skip \in SkipArgs, nd \in Precisions :
        BuildCall("wp", <<g, t, skip, nd>>, Ok(wp(g, matches, t, skip, nd)))

CalculateTeamStatistics ==
    \E g \in QueryGenders, t \in Targets, nd \in Precisions :
        BuildCall("calculate_team_statistics", <<g, t, nd>>,
                  Ok(calculate_team_statistics(g, matches, t, nd)))

NextCounters ==
    \/ RpiGetWins
    \/ RpiGetLosses
    \/ RpiGetDraws
    \/ RpiWp
    \/ GetWins
    \/ GetLosses
    \/ GetDraws
    \/ Wp
    \/ CalculateTeamStatistics

SpecCounters == InitCalc /\ [][NextCounters]_vars

RpiOwp ==
    \E t \in Targets, nd \in Precisions :
        RpiCall("rpi_owp", <<t, nd>>, rpi_owp(matches, t, nd))

RpiOowp ==
    \E t \in Targets, nd \in Precisions :
        RpiCall("rpi_oowp", <<t, nd>>, rpi_oowp(matches, t, nd))

RpiGetOpponents ==
    \E t \in Targets :
        RpiCall("rpi_get_opponents", <<t>>, Ok(rpi_get_opponents(matches, t)))

RpiGetMeetingCount ==
    \E t \in Targets, u \in Teams :
        RpiCall("rpi_get_meeting_count", <<t, u>>,
                Ok(rpi_get_meeting_count(t, u, matches)))

Owp ==
    \E g \in QueryGenders, t \in Targets, nd \in Precisions :
        BuildCall("owp", <<g, t, nd>>, Ok(owp(g, matches, t, nd)))

Oowp ==
    \E g \in QueryGenders, t \in Targets, nd \in Precisions :
        BuildCall("oowp", <<g, t, nd>>, Ok(oowp(g, matches, t, nd)))

GetOpponents ==
    \E g \in QueryGenders, t \in Targets :
        BuildCall("get_opponents", <<g, t>>, Ok(get_opponents(g, matches, t)))

GetMeetingCount ==
    \E g \in QueryGenders, t \in Targets, u \in Teams :
        BuildCall("get_meeting_count", <<g, t, u>>,
                  Ok(get_meeting_count(g, t, u, matches)))

CalculateStatistics ==
    \E g \in QueryGenders, nd \in Precisions :
        BuildCall("calculate_statistics", <<g, nd>>,
                  Ok(calculate_statistics(g, matches, nd)))

NextCalc ==
    \/ RpiGetWins
    \/ RpiGetLosses
    \/ RpiGetDraws
    \/ RpiWp
    \/ RpiOwp
    \/ RpiOowp
    \/ RpiGetOpponents
    \/ RpiGetMeetingCount
    \/ GetWins
    \/ GetLosses
    \/ GetDraws
    \/ Wp
    \/ Owp
    \/ Oowp
    \/ GetOpponents
    \/ GetMeetingCount
    \/ CalculateTeamStatistics
    \/ CalculateStatistics

SpecCalc == InitCalc /\ [][NextCalc]_vars

(* ------------------------- state machine of rpi ----------------------- *)

\* The arguments of rpi are the fractions k / RpiGrid of [0, 1].
RpiGrid == 10

RpiInputs == {<<k, RpiGrid>> : k \in 0 .. RpiGrid}

\* rpi takes no match list; one is at hand in the caller all the same.
InitRpi ==
    /\ \/ /\ pkg = "rpi"
          /\ matches \in {<<>>, <<Match("A", "B", 1, 0, "final")>>}
       \/ /\ pkg = "build"
          /\ matches \in {<<>>, <<BuildMatch("men", "A", "B", 1, 0, "final")>>}
    /\ result = NoCall
    /\ ConstantsUnread
    /\ pool = NoPool
    /\ iterator = NoIterator

RpiRpi ==
    \E w \in RpiInputs, o \in RpiInputs, oo \in RpiInputs, nd \in Precisions :
        RpiCall("rpi_rpi", <<w, o, oo, nd>>, Ok(rpi_rpi(w, o, oo, nd)))

Rpi ==
    \E w \in RpiInputs, o \in RpiInputs, oo \in RpiInputs, nd \in Precisions :
        BuildCall("rpi", <<w, o, oo, nd>>, Ok(rpi(w, o, oo, nd)))

NextRpi ==
    \/ RpiRpi
    \/ Rpi

SpecRpi == InitRpi /\ [][NextRpi]_vars

(* ------------------- state machine of the Match models --------------- *)

\* Status values handed to the constructors.
StatusArgs == {NoneT, "pre", "live", "final", "finished", "postponed"}

\* Values handed to Score for one side.
ScoreArgs == {Missing, <<"NoneType", "">>, <<"str", "">>, <<"str", "1">>,
              <<"int", "0">>, <<"int", "1">>}

MatchPackages == {"ripper", "rpi", "build"}

InitMatch ==
    /\ pkg \in MatchPackages
    /\ matches = <<>>
    /\ result = NoCall
    /\ ConstantsUnread
    /\ pool = NoPool
    /\ iterator = NoIterator

\* The outcome of a constructor: the list holds the match when it returns.
Constructed(args, r) ==
    /\ matches = <<>>
    /\ result' = Called("Match", args, r)
    /\ matches' = IF r.status = "ok" THEN <<r.out>> ELSE <<>>
    /\ UNCHANGED <<pkg, K_FACTOR, INITIAL_RATING, pool, iterator>>

NewMatch ==
    \E h \in Teams, a \in Teams, hs \in Scores, as \in Scores, gs \in StatusArgs :
        /\ pkg = "ripper"
        /\ Constructed(<<h, a, hs, as, gs>>, Ok(Match(h, a, hs, as, gs)))

RpiNewMatch ==
    \E h \in Teams, a \in Teams, hs \in Scores, as \in Scores, gs \in StatusArgs :
        /\ pkg = "rpi"
        /\ Constructed(<<h, a, hs, as, gs>>, Ok(rpi_Match(h, a, hs, as, gs)))

BuildNewMatch ==
    \E h \in Teams, a \in Teams, st \in StatusArgs,
       sc \in {<<>>} \cup (ScoreArgs \X ScoreArgs) :
        /\ pkg = "build"
        /\ Constructed(<<h, a, sc, st>>, Match_new("men", h, a, sc, st))

\* A method called on the match that was constructed.
Asked(call, flat, decorated) ==
    /\ matches # <<>>
    /\ result' = Called(call, <<>>, Ok(IF pkg = "build" THEN decorated ELSE flat))
    /\ UNCHANGED <<matches, pkg, K_FACTOR, INITIAL_RATING, pool, iterator>>

AskWinner ==
    Asked("winner", winner(matches[1]), MatchDecorator_winner(matches[1]))

AskLoser ==
    Asked("loser", loser(matches[1]), MatchDecorator_loser(matches[1]))

AskIsDraw ==
    Asked("is_draw", is_draw(matches[1]), MatchDecorator_is_draw(matches[1]))

AskIsLive ==
    Asked("is_live", is_live(matches[1]), MatchDecorator_is_live(matches[1]))

AskIsFinished ==
    Asked("is_finished", is_finished(matches[1]),
          MatchDecorator_is_finished(matches[1]))

AskIsUpcoming ==
    Asked("is_upcoming", is_upcoming(matches[1]),
          MatchDecorator_is_upcoming(matches[1]))

NextMatch ==
    \/ NewMatch
    \/ RpiNewMatch
    \/ BuildNewMatch
    \/ AskWinner
    \/ AskLoser
    \/ AskIsDraw
    \/ AskIsLive
    \/ AskIsFinished
    \/ AskIsUpcoming

SpecMatch == InitMatch /\ [][NextMatch]_vars

(* ------------------------- state machine of Elo ----------------------- *)

\* Longest match list handed to process_matches_with_elo.
MaxEloMatches == 2

EloMatchInputs ==
    {Match(h, a, hs, as, gs) :
        h \in Teams, a \in Teams, hs \in Scores, as \in Scores,
        gs \in {"live", "final"}}

\* Ratings and score pairs handed to update_ratings.
EloRatingArgs == {1484, 1500, 1501, 1516}

EloScoreArgs == {<<<<1, 1>>, <<0, 1>>>>, <<<<0, 1>>, <<1, 1>>>>, <<<<1, 2>>, <<1, 2>>>>}

InitElo ==
    /\ pkg = "ripper"
    /\ matches \in SeqsUpTo({m \in EloMatchInputs : m.home_team # m.away_team},
                            MaxEloMatches)
    /\ result = NoCall
    /\ ConstantsImported
    /\ pool = NoPool
    /\ iterator = NoIterator

ProcessMatchesWithElo ==
    /\ result.call = "none"
    /\ result' = Called("process_matches_with_elo", <<>>,
                        Ok(process_matches_with_elo(matches)))
    /\ UNCHANGED <<matches, pkg, K_FACTOR, INITIAL_RATING, pool, iterator>>

\* update_ratings takes no match list.
UpdateRatings ==
    \E rating_a \in EloRatingArgs, rating_b \in EloRatingArgs, sc \in EloScoreArgs :
        /\ matches = <<>>
        /\ result.call = "none"
        /\ result' = Called("update_ratings", <<rating_a, rating_b, sc[1], sc[2]>>,
                            Ok(update_ratings(rating_a, rating_b, sc[1], sc[2])))
        /\ UNCHANGED <<matches, pkg, K_FACTOR, INITIAL_RATING, pool, iterator>>

NextElo ==
    \/ ProcessMatchesWithElo
    \/ UpdateRatings

SpecElo == InitElo /\ [][NextElo]_vars

(* --------------------- state machine of ColleyMatrixIndex ------------- *)

\* Longest match list handed to ColleyMatrixIndex.
MaxColleyMatches == 3

\* calculate reads the teams and the scores of a match, not its state: a
\* home win, an away win and a draw of every pairing.
ColleyMatchInputs ==
    {m \in {Match(h, a, hs, as, "final") :
               h \in Teams, a \in Teams, hs \in Scores, as \in Scores} :
        m.home_score + m.away_score > 0}

InitColley ==
    /\ pkg = "ripper"
    /\ matches \in SeqsUpTo({m \in ColleyMatchInputs : m.home_team # m.away_team},
                            MaxColleyMatches)
    /\ result = NoCall
    /\ ConstantsUnread
    /\ pool = NoPool
    /\ iterator = NoIterator

CalcColleyMatrix ==
    /\ result.call = "none"
    /\ result' = Returned("ColleyMatrixIndex", ColleyMatrixIndex_calculate(matches))
    /\ UNCHANGED <<matches, pkg, K_FACTOR, INITIAL_RATING, pool, iterator>>

NextColley == CalcColleyMatrix

SpecColley == InitColley /\ [][NextColley]_vars

(* calculate_statistics of the build tree, step by step: pool.map puts one *)
(* task per team name on the task queue, every worker process takes tasks   *)
(* off the queue and sends each result back when it has it, and the call    *)
(* returns when all results are in.  With at most three names and at least  *)
(* one worker every chunk of pool.map holds one name.                       *)

MaxPoolMatches == 2

\* multiprocessing.cpu_count()
Workers == {1, 2}

\* Final men's matches of every pairing, an away win or a draw.
PoolMatchInputs ==
    {BuildMatch(g, h, a, hs, 1, "final") :
        g \in QueryGenders, h \in Teams, a \in Teams, hs \in Scores}

InitPool ==
    /\ pkg = "build"
    /\ matches \in SeqsUpTo({m \in PoolMatchInputs : m.home.name # m.away.name},
                            MaxPoolMatches)
    /\ result = NoCall
    /\ ConstantsUnread
    /\ pool = NoPool
    /\ iterator = NoIterator

\* calculate_statistics up to pool.map handing out the tasks.
PoolMap ==
    /\ result.call = "none"
    /\ pool.state = "idle"
    /\ \E g \in QueryGenders, nd \in Precisions, num_workers \in Workers :
          LET team_names == build_list_team_names(matches)
          IN  pool' = [state      |-> "running",
                       gender     |-> g,
                       precision  |-> nd,
                       team_names |-> team_names,
                       taskqueue  |-> [i \in DOMAIN team_names |-> i],
                       workers    |-> [w \in 1 .. num_workers |-> 0],
                       value      |-> [i \in DOMAIN team_names |-> <<>>]]
    /\ UNCHANGED <<matches, pkg, result, K_FACTOR, INITIAL_RATING, iterator>>

\* An idle worker takes the next task off the queue.
WorkerGet(w) ==
    /\ pool.state = "running"
    /\ pool.workers[w] = 0
    /\ pool.taskqueue # <<>>
    /\ pool' = [pool EXCEPT !.workers[w] = Head(pool.taskqueue),
                            !.taskqueue = Tail(pool.taskqueue)]
    /\ UNCHANGED <<matches, pkg, result, K_FACTOR, INITIAL_RATING, iterator>>

\* A worker ends its task: calculate_team_statistics on the match list it was
\* given, for the team name of the task.
WorkerDone(w) ==
    /\ pool.state = "running"
    /\ pool.workers[w] # 0
    /\ LET i == pool.workers[w]
           obj == calculate_team_statistics(pool.gender, matches,
                                            pool.team_names[i], pool.precision)
       IN  pool' = [pool EXCEPT !.workers[w] = 0,
                                !.value = pool_set(pool.value, i, obj)]
    /\ UNCHANGED <<matches, pkg, result, K_FACTOR, INITIAL_RATING, iterator>>

\* All results are in: pool.map returns the list, the with block ends the
\* pool and calculate_statistics returns dict(results).
PoolReturn ==
    /\ pool.state = "running"
    /\ \A i \in DOMAIN pool.value : pool.value[i] # <<>>
    /\ result' = Called("calculate_statistics", <<pool.gender, pool.precision>>,
                        Ok(dict(pool.value)))
    /\ pool' = NoPool
    /\ UNCHANGED <<matches, pkg, K_FACTOR, INITIAL_RATING, iterator>>

NextPool ==
    \/ PoolMap
    \/ \E w \in DOMAIN pool.workers : WorkerGet(w)
    \/ \E w \in DOMAIN pool.workers : WorkerDone(w)
    \/ PoolReturn

SpecPool == InitPool /\ [][NextPool]_vars

(* --------------------- reference counts for the claims ---------------- *)

TeamUniverse(ms) ==
    {ms[i].home_team : i \in DOMAIN ms} \cup {ms[i].away_team : i \in DOMAIN ms}

WonBy(ms, t) ==
    Cardinality({i \in DOMAIN ms :
        /\ ms[i].game_state = "final" /\ contains(ms[i], t)
        /\ \/ ms[i].home_team = t /\ ms[i].home_score > ms[i].away_score
           \/ ms[i].away_team = t /\ ms[i].away_score > ms[i].home_score})

LostBy(ms, t) ==
    Cardinality({i \in DOMAIN ms :
        /\ ms[i].game_state = "final" /\ contains(ms[i], t)
        /\ \/ ms[i].home_team = t /\ ms[i].home_score < ms[i].away_score
           \/ ms[i].away_team = t /\ ms[i].away_score < ms[i].home_score})

DrawnBy(ms, t) ==
    Cardinality({i \in DOMAIN ms :
        /\ ms[i].game_state = "final" /\ contains(ms[i], t)
        /\ ms[i].home_score = ms[i].away_score})

PlayedBy(ms, t) == Cardinality({i \in DOMAIN ms : contains(ms[i], t)})

AllFinalDecided(ms) ==
    \A i \in DOMAIN ms :
        ms[i].game_state = "final" /\ ms[i].home_score # ms[i].away_score

IndexCalls ==
    {"WinsIndex", "LossesIndex", "DrawsIndex", "MatchesPlayedIndex",
     "WinPercentageIndex", "RecordIndex"}

RanksOf(out) == {out[i][1] : i \in DOMAIN out}

NamesOf(out) == {out[i][2] : i \in DOMAIN out}

(* -------------------------------- claims ------------------------------ *)

\* C1: for every match list, drawn and non-final matches included, the list
\* an index returns has exactly one entry per team of the list and its rank
\* fields are exactly 1..T, each once.  (Stated for the six count-based
\* indices.)
C1_OneEntryPerTeamRanks1toT ==
    result.call \in IndexCalls =>
        /\ result.status = "ok"
        /\ Len(result.out) = Cardinality(TeamUniverse(matches))
        /\ NamesOf(result.out) = TeamUniverse(matches)
        /\ RanksOf(result.out) = 1 .. Cardinality(TeamUniverse(matches))

\* C2: in a list returned by WinsIndex, LossesIndex, MatchesPlayedIndex or
\* WinPercentageIndex the entry at position i carries rank i.
C2_RankIsPosition ==
    /\ result.call \in {"WinsIndex", "LossesIndex", "MatchesPlayedIndex",
                         "WinPercentageIndex"}
    /\ result.status = "ok"
    => \A i \in DOMAIN result.out : result.out[i][1] = i

\* The value an index orders by, and whether x may stand before y.
InOrder(call, x, y) ==
    CASE call = "LossesIndex" ->
            x[3] < y[3] \/ (x[3] = y[3] /\ Ord[x[2]] < Ord[y[2]])
      [] call = "WinPercentageIndex" ->
            FloatLt(y[3], x[3]) \/ (FloatEq(x[3], y[3]) /\ Ord[x[2]] < Ord[y[2]])
      [] call = "RecordIndex" ->
            LET px == 3 * x[3][1] + x[3][5]
                py == 3 * y[3][1] + y[3][5]
            IN  px > py \/ (px = py /\ Ord[x[2]] < Ord[y[2]])
      [] OTHER ->
            x[3] > y[3] \/ (x[3] = y[3] /\ Ord[x[2]] < Ord[y[2]])

\* C3: every index returns its list ordered by value in the index's
\* direction (ascending for losses, descending otherwise), equal values in
\* ascending name order.  Stated on match lists whose matches are all final
\* and decided, where no index meets a drawn or unfinished match.
C3_OrderedByValueThenName ==
    result.call \in IndexCalls /\ AllFinalDecided(matches) =>
        /\ result.status = "ok"
        /\ \A i, j \in DOMAIN result.out :
              i < j => InOrder(result.call, result.out[i], result.out[j])

\* C4: WinsIndex and LossesIndex return normally on a list with a drawn or
\* a non-final match, and such a match adds no win and no loss.
C4_WinsLossesTolerateDrawsAndUnfinished ==
    /\ result.call = "WinsIndex" =>
          /\ result.status = "ok"
          /\ NamesOf(result.out) = TeamUniverse(matches)
          /\ \A i \in DOMAIN result.out :
                result.out[i][3] = WonBy(matches, result.out[i][2])
    /\ result.call = "LossesIndex" =>
          /\ result.status = "ok"
          /\ NamesOf(result.out) = TeamUniverse(matches)
          /\ \A i \in DOMAIN result.out :
                result.out[i][3] = LostBy(matches, result.out[i][2])

\* C5: DrawsIndex returns normally on every match list and gives each team
\* of the universe its number of final matches with equal scores.
C5_DrawsCounted ==
    result.call = "DrawsIndex" =>
        /\ result.status = "ok"
        /\ NamesOf(result.out) = TeamUniverse(matches)
        /\ \A i \in DOMAIN result.out :
              result.out[i][3] = DrawnBy(matches, result.out[i][2])

\* C6: the value WinPercentageIndex reports for a team is that team's wins
\* divided by that team's matches played.
C6_WinPercentageOfSameTeam ==
    result.call = "WinPercentageIndex" /\ result.status = "ok" =>
        \A i \in DOMAIN result.out :
            FloatEq(result.out[i][3],
                    <<WonBy(matches, result.out[i][2]),
                      PlayedBy(matches, result.out[i][2])>>)

(* ------------------ reference sets for the calculations --------------- *)

\* The fields of a match of the list, whichever package's Match it is.
HomeOf(m) == IF pkg = "build" THEN m.home.name ELSE m.home_team

AwayOf(m) == IF pkg = "build" THEN m.away.name ELSE m.away_team

HomeScoreOf(m) == IF pkg = "build" THEN m.score.home ELSE m.home_score

AwayScoreOf(m) == IF pkg = "build" THEN m.score.away ELSE m.away_score

FinishedOf(m) ==
    IF pkg = "build" THEN m.status \in {"finished", "final"}
    ELSE m.game_state = "final"

\* The arguments of the call made: the build tree's functions take the
\* gender first, the functions of rpi/calculations.py take none.
ArgGender == IF pkg = "build" THEN result.args[1] ELSE NoneT

ArgTeam == IF pkg = "build" THEN result.args[2] ELSE result.args[1]

ArgSkip == IF pkg = "build" THEN result.args[3] ELSE result.args[2]

ArgDigits == result.args[Len(result.args)]

InCategory(m, g) == pkg = "build" => m.gender = g

\* Positions of the finished matches of category g that contain t and do not
\* contain the excluded opponent.
Counted(g, t, skip) ==
    {i \in DOMAIN matches :
        /\ InCategory(matches[i], g)
        /\ FinishedOf(matches[i])
        /\ t \in {HomeOf(matches[i]), AwayOf(matches[i])}
        /\ skip \in {NoneT, ""} \/ skip \notin {HomeOf(matches[i]), AwayOf(matches[i])}}

ScoreFor(i, t) ==
    IF HomeOf(matches[i]) = t THEN HomeScoreOf(matches[i]) ELSE AwayScoreOf(matches[i])

ScoreAgainst(i, t) ==
    IF HomeOf(matches[i]) = t THEN AwayScoreOf(matches[i]) ELSE HomeScoreOf(matches[i])

WinsCalls == {"get_wins_for_team", "rpi_get_wins_for_team"}

LossesCalls == {"get_losses_for_team", "rpi_get_losses_for_team"}

DrawsCalls == {"get_draws_for_team", "rpi_get_draws_for_team"}

Abs(n) == IF n < 0 THEN -n ELSE n

\* x is a multiple of 10^-ndigits at most half a unit away from q.
RoundedTo(x, q, ndigits) ==
    /\ (x[1] * Pow10(ndigits)) % x[2] = 0
    /\ 2 * Pow10(ndigits) * Abs(x[1] * q[2] - q[1] * x[2]) <= q[2] * x[2]

\* x is the winning percentage of the counts, 0.0 when there is no match.
WpOfCounts(x, wins, losses, draws, ndigits) ==
    IF wins + losses + draws = 0 THEN x[1] = 0
    ELSE RoundedTo(x, <<2 * wins + draws, 2 * (wins + losses + draws)>>, ndigits)

\* C7: for a team with no finished match, or with no match left once the
\* excluded opponent's matches are taken out, wp, owp and oowp return 0.0 and
\* the rpi of them is 0.0; no version of them raises.
C7_ZeroMatchesGiveZero ==
    /\ result.call \in {"wp", "rpi_wp"} /\ Counted(ArgGender, ArgTeam, ArgSkip) = {}
       => result.status = "ok" /\ result.out[1] = 0
    /\ result.call \in {"owp", "oowp", "rpi_owp", "rpi_oowp"}
         /\ Counted(ArgGender, ArgTeam, NoneT) = {}
       => result.status = "ok" /\ result.out[1] = 0
    /\ result.call = "calculate_team_statistics"
         /\ Counted(ArgGender, ArgTeam, NoneT) = {}
       => /\ result.out[2].wp[1] = 0
          /\ result.out[2].owp[1] = 0
          /\ result.out[2].oowp[1] = 0
          /\ result.out[2].rpi[1] = 0

\* C8: wp called without an excluded opponent is (wins + draws/2) /
\* (wins + losses + draws) rounded to the precision, for the wins, losses and
\* draws the three counters return on the same matches (0.0 when they are all
\* zero); and the wp field of a bundle of calculate_team_statistics is that
\* value of the bundle's own wins, losses and draws.
C8_WpFromCounters ==
    /\ result.call = "wp" /\ ~Truthy(ArgSkip)
       => WpOfCounts(result.out,
                     get_wins_for_team(ArgGender, matches, ArgTeam, ArgSkip),
                     get_losses_for_team(ArgGender, matches, ArgTeam, ArgSkip),
                     get_draws_for_team(ArgGender, matches, ArgTeam, ArgSkip),
                     ArgDigits)
    /\ result.call = "rpi_wp" /\ ~Truthy(ArgSkip) /\ result.status = "ok"
       => WpOfCounts(result.out,
                     rpi_get_wins_for_team(matches, ArgTeam, ArgSkip),
                     rpi_get_losses_for_team(matches, ArgTeam, ArgSkip),
                     rpi_get_draws_for_team(matches, ArgTeam, ArgSkip),
                     ArgDigits)
    /\ result.call = "calculate_team_statistics"
       => WpOfCounts(result.out[2].wp, result.out[2].wins, result.out[2].losses,
                     result.out[2].draws, ArgDigits)

\* C8 witness: wp without an excluded opponent returned 0.2 at one decimal
\* for a team with one draw and one loss (0.25 rounded).
C8_Witness ==
    /\ result.call = "wp"
    /\ ArgSkip = NoneT
    /\ ArgDigits = 1
    /\ get_draws_for_team(ArgGender, matches, ArgTeam, ArgSkip) = 1
    /\ get_losses_for_team(ArgGender, matches, ArgTeam, ArgSkip) = 1
    /\ result.out = <<2, 10>>

\* C9: each counter counts only finished matches that contain the team; a
\* non-empty skip_team_name leaves out every match that contains that team
\* too, None and "" leave out none; a counted match is a win, a loss or a
\* draw of the team and nothing else, so the three counts add up to the
\* number of counted matches.
C9_CountersCountFinishedMatchesOfTeam ==
    LET S == Counted(ArgGender, ArgTeam, ArgSkip)
    IN  /\ result.call \in WinsCalls
           => result.out
                = Cardinality({i \in S : ScoreFor(i, ArgTeam) > ScoreAgainst(i, ArgTeam)})
        /\ result.call \in LossesCalls
           => result.out
                = Cardinality({i \in S : ScoreFor(i, ArgTeam) < ScoreAgainst(i, ArgTeam)})
        /\ result.call \in DrawsCalls
           => result.out
                = Cardinality({i \in S : ScoreFor(i, ArgTeam) = ScoreAgainst(i, ArgTeam)})
        /\ result.call = "get_wins_for_team"
           => result.out
                + get_losses_for_team(ArgGender, matches, ArgTeam, ArgSkip)
                + get_draws_for_team(ArgGender, matches, ArgTeam, ArgSkip)
                = Cardinality(S)
        /\ result.call = "rpi_get_wins_for_team"
           => result.out
                + rpi_get_losses_for_team(matches, ArgTeam, ArgSkip)
                + rpi_get_draws_for_team(matches, ArgTeam, ArgSkip)
                = Cardinality(S)

\* C9 witness: get_wins_for_team with skip_team_name "B" returned 1 on a list
\* of two finished wins of the team, one of them over B.
C9_Witness ==
    /\ result.call = "get_wins_for_team"
    /\ ArgSkip = "B"
    /\ result.out = 1
    /\ get_wins_for_team(ArgGender, matches, ArgTeam, NoneT) = 2
    /\ \E i \in DOMAIN matches :
          matches[i].gender = ArgGender /\ MatchDecorator_contains(matches[i], "B")

\* filter(lambda m: m.gender == gender, matches)
OfGender(ms, gender) == SelectSeq(ms, LAMBDA m : m.gender = gender)

\* What the call made returns on another list ms.
SameCallOn(ms) ==
    LET a == result.args
    IN  CASE result.call = "get_wins_for_team" -> get_wins_for_team(a[1], ms, a[2], a[3])
          [] result.call = "get_losses_for_team" -> get_losses_for_team(a[1], ms, a[2], a[3])
          [] result.call = "get_draws_for_team" -> get_draws_for_team(a[1], ms, a[2], a[3])
          [] result.call = "get_opponents" -> get_opponents(a[1], ms, a[2])
          [] result.call = "get_meeting_count" -> get_meeting_count(a[1], a[2], a[3], ms)
          [] result.call = "wp" -> wp(a[1], ms, a[2], a[3], a[4])
          [] result.call = "owp" -> owp(a[1], ms, a[2], a[3])
          [] result.call = "oowp" -> oowp(a[1], ms, a[2], a[3])
          [] result.call = "calculate_team_statistics" ->
                calculate_team_statistics(a[1], ms, a[2], a[3])
          [] result.call = "calculate_statistics" -> calculate_statistics(a[1], ms, a[2])

\* C10: for a gender g, what the counters, get_opponents, get_meeting_count,
\* wp, owp, oowp and calculate_statistics return is what they return on the
\* matches of gender g alone: matches of another gender add no value and no
\* team entry.
C10_OtherGenderMatchesChangeNothing ==
    pkg = "build" /\ result.call # "none"
        => result.out = SameCallOn(OfGender(matches, result.args[1]))

\* C11: rpi(wp, owp, oowp, ndigits) is 0.25*wp + 0.50*owp + 0.25*oowp rounded
\* to ndigits decimals, in both versions, and is determined by its four
\* arguments alone (the match list at hand plays no part).
C11_RpiIsRoundedWeightedSum ==
    result.call \in {"rpi", "rpi_rpi"} =>
        LET a == result.args
        IN  RoundedTo(result.out,
                      <<a[1][1] * a[2][2] * a[3][2] + 2 * a[2][1] * a[1][2] * a[3][2]
                          + a[3][1] * a[1][2] * a[2][2],
                        4 * a[1][2] * a[2][2] * a[3][2]>>,
                      a[4])

\* C11 witness: rpi(0.3, 0.0, 0.0, 1) returned 0.1 (0.075 rounded) while a
\* match list was at hand.
C11_Witness ==
    /\ result.call = "rpi"
    /\ result.args = <<<<3, RpiGrid>>, <<0, RpiGrid>>, <<0, RpiGrid>>, 1>>
    /\ result.out = <<1, 10>>
    /\ matches # <<>>

\* C12: on a match that is not final, winner() and loser() return None and
\* is_draw() returns False; on a final match with home # away either the
\* scores differ, winner() is the side with the higher score, loser() the other
\* side and is_draw() is False, or the scores are equal, is_draw() is True and
\* winner() and loser() are None.  (Final is the state 'final', which the build
\* tree also reads from the upstream word 'finished'.)
C12_ResultOnlyOfFinalMatch ==
    matches # <<>> /\ result.call \in {"winner", "loser", "is_draw"} =>
        LET m      == matches[1]
            higher == IF HomeScoreOf(m) > AwayScoreOf(m) THEN HomeOf(m) ELSE AwayOf(m)
            lower  == IF HomeScoreOf(m) > AwayScoreOf(m) THEN AwayOf(m) ELSE HomeOf(m)
        IN  /\ result.status = "ok"
            /\ ~FinishedOf(m) =>
                  /\ result.call = "winner" => result.out = NoneT
                  /\ result.call = "loser" => result.out = NoneT
                  /\ result.call = "is_draw" => result.out = FALSE
            /\ FinishedOf(m) /\ HomeOf(m) # AwayOf(m) /\ HomeScoreOf(m) # AwayScoreOf(m) =>
                  /\ result.call = "winner" => result.out = higher
                  /\ result.call = "loser" => result.out = lower
                  /\ result.call = "is_draw" => result.out = FALSE
            /\ FinishedOf(m) /\ HomeOf(m) # AwayOf(m) /\ HomeScoreOf(m) = AwayScoreOf(m) =>
                  /\ result.call = "winner" => result.out = NoneT
                  /\ result.call = "loser" => result.out = NoneT
                  /\ result.call = "is_draw" => result.out = TRUE

\* C12 witness: winner() returned None on a live match in which the home
\* side leads 1-0.
C12_Witness ==
    /\ pkg = "ripper"
    /\ matches # <<>>
    /\ matches[1].game_state = "live"
    /\ matches[1].home_score = 1
    /\ matches[1].away_score = 0
    /\ result.call = "winner"
    /\ result.out = NoneT

\* A side's score is missing: the keyword is not given, or None is given.
NoScore(value) == value = Missing \/ value[1] = "NoneType"

\* C13: constructing a Match (build tree) whose status is not 'pre' fails when
\* the home or the away score is missing, also when no score is given at all.
C13_ScoresRequiredUnlessPreGame ==
    /\ pkg = "build"
    /\ result.call = "Match"
    /\ result.args[4] # "pre"
    /\ \/ result.args[3] = <<>>
       \/ NoScore(result.args[3][1])
       \/ NoScore(result.args[3][2])
    => result.status # "ok"

\* The three state methods on the match m of package p, the one that was
\* called taken from the result.
StateAnswer(call, p, m) ==
    IF result.call = call THEN result.out
    ELSE CASE call = "is_live" ->
                IF p = "build" THEN MatchDecorator_is_live(m) ELSE is_live(m)
           [] call = "is_finished" ->
                IF p = "build" THEN MatchDecorator_is_finished(m) ELSE is_finished(m)
           [] call = "is_upcoming" ->
                IF p = "build" THEN MatchDecorator_is_upcoming(m) ELSE is_upcoming(m)

\* What the same method answers on a Match of ripper/models constructed with
\* the status given.
RipperAnswer(call, status) ==
    LET m == Match("A", "B", 0, 0, status)
    IN  CASE call = "is_live" -> is_live(m)
          [] call = "is_finished" -> is_finished(m)
          [] call = "is_upcoming" -> is_upcoming(m)

\* C14: whatever status was given to the constructor, exactly one of
\* is_upcoming(), is_live(), is_finished() is true of the match, and the Match
\* of ripper/models and the Match of the build tree give the same answer for
\* the same status.
C14_ExactlyOneStateAndModelsAgree ==
    matches # <<>> /\ result.call \in {"is_live", "is_finished", "is_upcoming"} =>
        LET m == matches[1]
        IN  /\ Cardinality({c \in {"is_live", "is_finished", "is_upcoming"} :
                               StateAnswer(c, pkg, m)}) = 1
            /\ pkg = "build" => result.out = RipperAnswer(result.call, m.status)

\* The final matches of a list, in order.
FinalOnly(ms) == SelectSeq(ms, LAMBDA m : m.game_state = "final")

\* C15: process_matches_with_elo leaves every rating as it is at a match that
\* is not final: the ratings are those of the final matches alone, and a team
\* that is in no final match is in the result with the initial rating.
C15_EloSkipsUnfinishedMatches ==
    result.call = "process_matches_with_elo" =>
        LET final == process_matches_with_elo(FinalOnly(matches))
        IN  /\ DOMAIN result.out = TeamUniverse(matches)
            /\ \A t \in DOMAIN result.out :
                  result.out[t] = IF t \in DOMAIN final THEN final[t]
                                  ELSE INITIAL_RATING

\* C15 witness: B won a final match against A, C is in a live match only and
\* has the initial rating.
C15_Witness ==
    /\ result.call = "process_matches_with_elo"
    /\ Len(matches) = 2
    /\ \E i \in DOMAIN matches :
          matches[i].game_state = "live" /\ contains(matches[i], "C")
          /\ matches[i].home_score # matches[i].away_score
    /\ \E i \in DOMAIN matches :
          matches[i].game_state = "final" /\ ~contains(matches[i], "C")
    /\ result.out["C"] = INITIAL_RATING
    /\ result.out["B"] > INITIAL_RATING

\* C16: update_ratings of two equal ratings with a winner raises the
\* winner's rating by what it takes from the loser's, and leaves both
\* unchanged at a draw; the same holds of process_matches_with_elo on one
\* final match.
C16_EloZeroSumFromEqualRatings ==
    /\ result.call = "update_ratings" /\ result.args[1] = result.args[2] =>
          IF result.args[3] = <<1, 2>>
          THEN result.out = <<result.args[1], result.args[2]>>
          ELSE /\ result.out[1] - result.args[1] = result.args[2] - result.out[2]
               /\ result.args[3] = <<1, 1>> => result.out[1] > result.args[1]
               /\ result.args[3] = <<0, 1>> => result.out[1] < result.args[1]
    /\ result.call = "process_matches_with_elo" /\ Len(matches) = 1
         /\ matches[1].game_state = "final" =>
          LET m == matches[1]
          IN  IF m.home_score = m.away_score
              THEN /\ result.out[m.home_team] = INITIAL_RATING
                   /\ result.out[m.away_team] = INITIAL_RATING
              ELSE /\ result.out[m.home_team] - INITIAL_RATING
                        = INITIAL_RATING - result.out[m.away_team]
                   /\ m.home_score > m.away_score
                        <=> result.out[m.home_team] > INITIAL_RATING

\* C16 witness: with K_FACTOR 15 update_ratings(1500, 1500, 1, 0) returned
\* (1508, 1492): 1507.5 and 1492.5 both rounded to the even neighbour.
C16_Witness ==
    /\ result.call = "update_ratings"
    /\ K_FACTOR = 15
    /\ result.args = <<1500, 1500, <<1, 1>>, <<0, 1>>>>
    /\ result.out = <<1508, 1492>>

\* The row of a team in C and b: its place in the name-sorted team list.
ColleyRow(ms, t) ==
    LET teams == list_team_names(ms)
    IN  CHOOSE i \in DOMAIN teams : teams[i] = t

MeetingsOf(ms, t, u) ==
    Cardinality({i \in DOMAIN ms : contains(ms[i], t) /\ contains(ms[i], u)})

\* C17: a drawn match adds 1 to both teams' diagonal entries of C, takes 1
\* from the two cross entries and leaves b as it is; a decided match also adds
\* 0.5 to the winner's entry of b and takes 0.5 from the loser's.  (b in units
\* of 0.5, from 1.)
C17_ColleyDrawLeavesB ==
    result.call = "ColleyMatrixIndex" =>
        LET sys == ColleySystem(matches)
        IN  \A t \in TeamUniverse(matches) :
               /\ sys.b[ColleyRow(matches, t)]
                    = 2 + WonBy(matches, t) - LostBy(matches, t)
               /\ sys.C[ColleyRow(matches, t)][ColleyRow(matches, t)]
                    = 2 + PlayedBy(matches, t)
               /\ \A u \in TeamUniverse(matches) \ {t} :
                     sys.C[ColleyRow(matches, t)][ColleyRow(matches, u)]
                       = -MeetingsOf(matches, t, u)

\* No match of the list is drawn and every team has won as often as lost.
Balanced(ms) ==
    /\ \A i \in DOMAIN ms : ms[i].home_score # ms[i].away_score
    /\ \A t \in TeamUniverse(ms) : WonBy(ms, t) = LostBy(ms, t)

\* C18: on a list without draws in which every team has as many wins as
\* losses the system is solved and every rating is 0.5: the teams are listed
\* by name with ranks 1..T.
C18_ColleyBalancedAllHalf ==
    result.call = "ColleyMatrixIndex" /\ Balanced(matches) =>
        /\ result.status = "ok"
        /\ result.out = [i \in DOMAIN list_team_names(matches) |->
                            <<i, list_team_names(matches)[i], <<50, 100>>>>]

\* C18 witness: the 3-cycle A beats B, B beats C, C beats A gave
\* [(1, A, 0.5), (2, B, 0.5), (3, C, 0.5)].
C18_Witness ==
    /\ result.call = "ColleyMatrixIndex"
    /\ matches = <<Match("A", "B", 1, 0, "final"), Match("B", "C", 1, 0, "final"),
                   Match("C", "A", 1, 0, "final")>>
    /\ result.out = <<<<1, "A", <<50, 100>>>>, <<2, "B", <<50, 100>>>>,
                      <<3, "C", <<50, 100>>>>>>

\* The list ms in the order p.
Permuted(ms, p) == [i \in DOMAIN ms |-> ms[p[i]]]

\* A match as a number: pairing first, then the scores.
MatchKey(m) ==
    ((Ord[m.home_team] * 4 + Ord[m.away_team]) * 2 + m.home_score) * 2 + m.away_score

\* The one order of a list in which the keys do not fall; every list is a
\* permutation of such a list.
InKeyOrder(ms) ==
    \A i \in DOMAIN ms : i > 1 => MatchKey(ms[i - 1]) <= MatchKey(ms[i])

\* C19: every permutation of the match list gives the same C, the same b and
\* the same output as the list in key order does, so any two orders of the
\* same matches give the same.
C19_ColleyOrderOfMatchesIrrelevant ==
    result.call = "ColleyMatrixIndex" /\ InKeyOrder(matches) =>
        LET sys == ColleySystem(matches)
        IN  \A p \in Permutations(DOMAIN matches) :
               LET again == ColleyMatrixIndex_calculate(Permuted(matches, p))
               IN  /\ again.status = result.status
                   /\ again.out = result.out
                   /\ ColleySystem(Permuted(matches, p)) = sys

\* C19 witness: a list in key order whose reversal meets the teams in the
\* order C, B, A, with three ratings that differ.
C19_Witness ==
    /\ result.call = "ColleyMatrixIndex"
    /\ matches = <<Match("A", "B", 1, 0, "final"), Match("A", "C", 1, 0, "final"),
                   Match("C", "B", 0, 1, "final")>>
    /\ InKeyOrder(matches)
    /\ <<result.out[1][2], result.out[2][2], result.out[3][2]>> = <<"A", "B", "C">>
    /\ ~FloatEq(result.out[1][3], result.out[2][3])
    /\ ~FloatEq(result.out[2][3], result.out[3][3])

\* The sequential computation: one bundle per team name, each computed by
\* calculate_team_statistics on the whole list.
SequentialStatistics(gender, ms, precision) ==
    [t \in {build_list_team_names(ms)[i] : i \in DOMAIN build_list_team_names(ms)} |->
        calculate_team_statistics(gender, ms, t, precision)[2]]

\* C20: whatever the number of workers and the order in which they take and
\* end their tasks, every result the pool has collected is the pair of the
\* task's team name and that team's bundle, and calculate_statistics returns
\* the mapping of the sequential per-team computation.
C20_PoolGivesSequentialStatistics ==
    /\ pool.state = "running" =>
          \A i \in DOMAIN pool.value :
              pool.value[i] # <<>> =>
                  pool.value[i] = calculate_team_statistics(
                                      pool.gender, matches, pool.team_names[i],
                                      pool.precision)
    /\ result.call = "calculate_statistics" =>
          /\ result.status = "ok"
          /\ result.out = SequentialStatistics(result.args[1], matches, result.args[2])

\* C20 witness: two workers, three teams, the task of the second name ended
\* before the task of the first.
C20_Witness ==
    /\ pool.state = "running"
    /\ Len(pool.workers) = 2
    /\ Len(pool.team_names) = 3
    /\ pool.value[1] = <<>>
    /\ pool.value[2] # <<>>
    /\ pool.value[2][1] = "B"
    /\ pool.value[2][2].wins + pool.value[2][2].losses + pool.value[2][2].draws > 0

(* =================== ripper/simulation/measurement.py ================= *)

Sign(n) == IF n > 0 THEN 1 ELSE IF n < 0 THEN -1 ELSE 0

RECURSIVE SumOver(_, _)
\* The sum of f over the finite set S.
SumOver(f, S) ==
    IF S = {} THEN 0
    ELSE LET x == CHOOSE x \in S : TRUE
         IN  f[x] + SumOver(f, S \ {x})

Nan == <<0, 0>>

\* scipy.stats.kendalltau(x, y) for two sequences without repeated values:
\* (concordant - discordant) / (n (n - 1) / 2), nan for fewer than two
\* observations.  The pairs are those of equal position.
kendalltau(x, y) ==
    LET n == Len(x)
        pairs == {ij \in (1 .. n) \X (1 .. n) : ij[1] < ij[2]}
        s == [ij \in pairs |-> Sign(x[ij[1]] - x[ij[2]]) * Sign(y[ij[1]] - y[ij[2]])]
    IN  IF n < 2 THEN Nan
        ELSE Lowest(<<2 * SumOver(s, pairs), n * (n - 1)>>)

\* scipy.stats.spearmanr(x, y) for two permutations of 1 .. n: Pearson's
\* coefficient of the values, which have the same mean and variance; nan for
\* fewer than two observations.
spearmanr(x, y) ==
    LET n == Len(x)
        c == [i \in 1 .. n |-> (2 * x[i] - n - 1) * (2 * y[i] - n - 1)]
        v == [i \in 1 .. n |-> (2 * x[i] - n - 1) * (2 * x[i] - n - 1)]
    IN  IF n < 2 THEN Nan
        ELSE Lowest(<<SumOver(c, 1 .. n), SumOver(v, 1 .. n)>>)

\* The ranks of list1 and of list2, each in the order of its own list.
kendalls_tau(list1, list2) ==
    LET ranks1 == [i \in DOMAIN list1 |-> list1[i][1]]
        ranks2 == [i \in DOMAIN list2 |-> list2[i][1]]
    IN  kendalltau(ranks1, ranks2)

spearmans_rank_correlation(list1, list2) ==
    LET ranks1 == [i \in DOMAIN list1 |-> list1[i][1]]
        ranks2 == [i \in DOMAIN list2 |-> list2[i][1]]
    IN  spearmanr(ranks1, ranks2)

(* ------------------- state machine of the measurements ---------------- *)

\* The orders of the teams of S.
OrdersOf(S) ==
    {q \in [1 .. Cardinality(S) -> S] : \A i, j \in DOMAIN q : i # j => q[i] # q[j]}

\* list1 is the output of an index, (rank, team, value) with rank i at
\* position i; values fall with the rank.
IndexOutputs ==
    {[i \in DOMAIN q |-> <<i, q[i], <<Len(q) + 1 - i, 10>>>>] :
        q \in UNION {OrdersOf(S) : S \in {T \in SUBSET Teams : Cardinality(T) >= 2}}}

\* list2 is a ranking (rank, team) of the same teams, its entries listed in
\* any order.
RankingsOf(S) ==
    {[i \in DOMAIN q |-> <<r[i], q[i]>>] :
        q \in OrdersOf(S), r \in OrdersOf(1 .. Cardinality(S))}

InitMeasure ==
    /\ pkg = "ripper"
    /\ matches = <<>>
    /\ result = NoCall
    /\ ConstantsUnread
    /\ pool = NoPool
    /\ iterator = NoIterator

MeasureCall(call, list1, list2, r) ==
    /\ result.call = "none"
    /\ result' = Called(call, <<list1, list2>>, r)
    /\ UNCHANGED <<matches, pkg, K_FACTOR, INITIAL_RATING, pool, iterator>>

KendallsTau ==
    \E list1 \in IndexOutputs :
        \E list2 \in RankingsOf({list1[i][2] : i \in DOMAIN list1}) :
            MeasureCall("kendalls_tau", list1, list2, Ok(kendalls_tau(list1, list2)))

SpearmansRankCorrelation ==
    \E list1 \in IndexOutputs :
        \E list2 \in RankingsOf({list1[i][2] : i \in DOMAIN list1}) :
            MeasureCall("spearmans_rank_correlation", list1, list2,
                        Ok(spearmans_rank_correlation(list1, list2)))

NextMeasure ==
    \/ KendallsTau
    \/ SpearmansRankCorrelation

SpecMeasure == InitMeasure /\ [][NextMeasure]_vars

\* The rank the team holds in a list of entries (rank, team, ...).
RankIn(list, t) == list[CHOOSE i \in DOMAIN list : list[i][2] = t][1]

\* Both lists give every team the same rank.
SameRanking(list1, list2) ==
    \A i \in DOMAIN list1 : RankIn(list2, list1[i][2]) = list1[i][1]

\* C21: for two rankings of the same teams kendalls_tau and
\* spearmans_rank_correlation are 1 exactly when every team holds the same
\* rank in both lists, and below 1 otherwise.
C21_CorrelationPairsRanksByTeam ==
    result.call \in {"kendalls_tau", "spearmans_rank_correlation"} =>
        /\ FloatEq(result.out, <<1, 1>>) <=> SameRanking(result.args[1], result.args[2])
        /\ ~SameRanking(result.args[1], result.args[2]) => FloatLt(result.out, <<1, 1>>)

(* ------------------ indices against the counters --------------------- *)

\* The value the returned list holds for the team.
ValueOf(out, t) == out[CHOOSE i \in DOMAIN out : out[i][2] = t][3]

\* C22: on a list of final, decided matches WinsIndex and LossesIndex report
\* for every team what get_wins_for_team and get_losses_for_team return for it
\* with no team skipped; on every list MatchesPlayedIndex reports for every
\* team the number of matches that contain it, whatever their state.
C22_IndicesAgreeWithCounters ==
    /\ result.call = "WinsIndex" /\ AllFinalDecided(matches) =>
          /\ result.status = "ok"
          /\ NamesOf(result.out) = TeamUniverse(matches)
          /\ \A t \in TeamUniverse(matches) :
                ValueOf(result.out, t) = rpi_get_wins_for_team(matches, t, NoneT)
    /\ result.call = "LossesIndex" /\ AllFinalDecided(matches) =>
          /\ result.status = "ok"
          /\ NamesOf(result.out) = TeamUniverse(matches)
          /\ \A t \in TeamUniverse(matches) :
                ValueOf(result.out, t) = rpi_get_losses_for_team(matches, t, NoneT)
    /\ result.call = "MatchesPlayedIndex" =>
          /\ result.status = "ok"
          /\ NamesOf(result.out) = TeamUniverse(matches)
          /\ \A t \in TeamUniverse(matches) :
                ValueOf(result.out, t) = PlayedBy(matches, t)

\* C22 witness: MatchesPlayedIndex counted a match that is not final.
C22_Witness ==
    /\ result.call = "MatchesPlayedIndex"
    /\ Len(matches) = 2
    /\ matches[1].game_state = "final"
    /\ matches[2].game_state # "final"
    /\ ValueOf(result.out, matches[2].home_team) = 2

(* ------------------- state machine of the date iterators ------------- *)

\* The longest span of days asked for.
MaxDays == 3

\* next() calls made on an exhausted iterator.
MaxStops == 2

Hours == {0, 12}

\* Start dates before the end of a year, before the end of a leap February
\* and before the last day datetime can hold.
StartDates ==
    {Datetime(ymd[1], ymd[2], ymd[3], h) :
        ymd \in {<<2023, 12, 30>>, <<2024, 2, 28>>, <<MAXYEAR, 12, 30>>}, h \in Hours}

InitDate ==
    /\ pkg = "ripper"
    /\ matches = <<>>
    /\ result = NoCall
    /\ ConstantsUnread
    /\ pool = NoPool
    /\ iterator = NoIterator

NewDateRangeIterator ==
    /\ iterator.cls = "none"
    /\ \E start \in StartDates, k \in -1 .. MaxDays - 1, h \in Hours :
          LET day == timedelta_add(start, k)
          IN  /\ day.status = "ok"
              /\ iterator' = DateRangeIterator(start, [day.out EXCEPT !.hour = h]).out
    /\ UNCHANGED <<matches, pkg, result, K_FACTOR, INITIAL_RATING, pool>>

NewDateCountIterator ==
    /\ iterator.cls = "none"
    /\ \E start \in StartDates, days \in 0 .. MaxDays :
          /\ DateCountIterator(start, days).status = "ok"
          /\ iterator' = DateCountIterator(start, days).out
    /\ UNCHANGED <<matches, pkg, result, K_FACTOR, INITIAL_RATING, pool>>

\* next(iterator), as the for loop of the caller and any later call make it.
IteratorNext ==
    /\ iterator.cls # "none"
    /\ iterator.stops < MaxStops
    /\ iterator' = next(iterator)
    /\ UNCHANGED <<matches, pkg, result, K_FACTOR, INITIAL_RATING, pool>>

NextDate ==
    \/ NewDateRangeIterator
    \/ NewDateCountIterator
    \/ IteratorNext

SpecDate == InitDate /\ [][NextDate]_vars

\* The date of a datetime.
DateOf(dt) == <<dt.year, dt.month, dt.day>>

RECURSIVE DaysThrough(_, _)
\* The dates from the day of a through the day of b, in order; none when the
\* day of b is before the day of a.
DaysThrough(a, b) ==
    IF DtKey([a EXCEPT !.hour = 0]) > DtKey([b EXCEPT !.hour = 0]) THEN <<>>
    ELSE IF DateOf(a) = DateOf(b) THEN <<DateOf(a)>>
    ELSE <<DateOf(a)>> \o DaysThrough(NextDay(a).out, b)

RECURSIVE DaysFrom(_, _)
\* The dates of the first n days from the day of a.
DaysFrom(a, n) ==
    IF n <= 0 THEN <<>>
    ELSE IF n = 1 THEN <<DateOf(a)>>
    ELSE <<DateOf(a)>> \o DaysFrom(NextDay(a).out, n - 1)

\* What an iterator is to yield by its constructor arguments.
ExpectedDates(it) ==
    IF it.cls = "DateRangeIterator"
    THEN (IF DtGt(it.args[1], it.args[2]) THEN <<>>
          ELSE DaysThrough(it.args[1], it.args[2]))
    ELSE DaysFrom(it.args[1], it.args[2])

\* C23: an iterator never fails; what it has yielded is always a prefix of
\* the days from start through end (of the first `days` days); and once it
\* has raised StopIteration it has yielded all of them and raises
\* StopIteration on every further next().
C23_IteratorsYieldTheDaysInclusive ==
    iterator.cls # "none" =>
        /\ iterator.last \in {"none", "value", "StopIteration"}
        /\ Len(iterator.yielded) <= Len(ExpectedDates(iterator))
        /\ \A i \in DOMAIN iterator.yielded :
              iterator.yielded[i] = ExpectedDates(iterator)[i]
        /\ iterator.stops > 0 =>
              /\ iterator.last = "StopIteration"
              /\ iterator.yielded = ExpectedDates(iterator)

(* ------------- state machine of owp and oowp on longer lists ---------- *)

\* The longest list handed to owp and oowp.
MaxOppMatches == 4

\* Every pairing as a home win and as a draw (the away wins are the home wins
\* of the reverse pairing), and one match not yet played per pair of teams.
OppMatchInputs ==
    {m \in {Match(h, a, 1, as, "final") : h \in Teams, a \in Teams, as \in Scores} :
        m.home_team # m.away_team}
    \cup {m \in {Match(h, a, 0, 0, "pre") : h \in Teams, a \in Teams} :
            Ord[m.home_team] < Ord[m.away_team]}

RECURSIVE KeyOrderedSeqs(_, _)
\* The lists of up to n matches of S in key order, one per collection of
\* matches: owp and oowp add up over the opponents and do not read positions.
KeyOrderedSeqs(S, n) ==
    IF n = 0 THEN {<<>>}
    ELSE LET shorter == KeyOrderedSeqs(S, n - 1)
         IN  shorter \cup
             {Append(sx[1], sx[2]) :
                 sx \in {p \in shorter \X S :
                            /\ Len(p[1]) = n - 1
                            /\ p[1] = <<>> \/ MatchKey(p[1][Len(p[1])]) <= MatchKey(p[2])}}

\* The same matches as men's matches of the build tree.
AsBuildMatches(ms) ==
    [i \in DOMAIN ms |->
        BuildMatch("men", ms[i].home_team, ms[i].away_team, ms[i].home_score,
                   ms[i].away_score, ms[i].game_state)]

InitOpp ==
    /\ \E ms \in KeyOrderedSeqs(OppMatchInputs, MaxOppMatches) :
          \/ pkg = "rpi" /\ matches = ms
          \/ pkg = "build" /\ matches = AsBuildMatches(ms)
    /\ result = NoCall
    /\ ConstantsUnread
    /\ pool = NoPool
    /\ iterator = NoIterator

NextOpp ==
    \/ RpiOwp
    \/ RpiOowp
    \/ Owp
    \/ Oowp
    \/ CalculateTeamStatistics

SpecOpp == InitOpp /\ [][NextOpp]_vars

(* ----------------------- reference for owp and oowp ------------------- *)

\* The names in the list at hand.
NamesAtHand ==
    {HomeOf(matches[i]) : i \in DOMAIN matches} \cup {AwayOf(matches[i]) : i \in DOMAIN matches}

\* The distinct opponents of t: the teams t has a match with, played or not.
OpponentsOf(g, t) ==
    {o \in NamesAtHand \ {t} :
        \E i \in DOMAIN matches :
            InCategory(matches[i], g) /\ {HomeOf(matches[i]), AwayOf(matches[i])} = {t, o}}

\* m(t, o): the finished matches featuring both.
Meetings(g, t, o) ==
    Cardinality({i \in Counted(g, t, NoneT) : o \in {HomeOf(matches[i]), AwayOf(matches[i])}})

\* Twice (wins + draws / 2) of o over the finished matches without t.
TwiceScoreWithout(g, o, t) ==
    2 * Cardinality({i \in Counted(g, o, t) : ScoreFor(i, o) > ScoreAgainst(i, o)})
    + Cardinality({i \in Counted(g, o, t) : ScoreFor(i, o) = ScoreAgainst(i, o)})

\* The opponents that have a finished match without t.
Eligible(g, t) == {o \in OpponentsOf(g, t) : Counted(g, o, t) # {}}

RECURSIVE WeightedSum(_, _, _)
\* The sum over the opponents of E of value[o] * m(t, o), as a quotient.
WeightedSum(value, g, tE) ==
    IF tE[2] = {} THEN <<0, 1>>
    ELSE LET o == CHOOSE o \in tE[2] : TRUE
         IN  FloatAdd(FloatTimes(value[o], Meetings(g, tE[1], o)),
                      WeightedSum(value, g, <<tE[1], tE[2] \ {o}>>))

\* The meeting-weighted average of value over the opponents E of t, 0 when
\* they share no finished match with t.
WeightedAverage(value, g, t, E) ==
    LET total == SumOver([o \in E |-> Meetings(g, t, o)], E)
    IN  IF total = 0 THEN <<0, 1>>
        ELSE FloatOver(WeightedSum(value, g, <<t, E>>), total)

\* OWP of t before the rounding.
ExactOwp(g, t) ==
    WeightedAverage([o \in Eligible(g, t) |->
                        <<TwiceScoreWithout(g, o, t), 2 * Cardinality(Counted(g, o, t))>>],
                    g, t, Eligible(g, t))

\* x is q rounded to ndigits digits, 0.0 when q is 0.
IsRounded(x, q, ndigits) ==
    IF q[1] = 0 THEN x[1] = 0 ELSE RoundedTo(x, q, ndigits)

\* C24: owp is the rounded meeting-weighted average of the winning
\* percentages, taken without the team's own matches, of the opponents that
\* have a finished match without the team; 0 when there is no meeting to
\* weigh.
C24_OwpIsWeightedAverage ==
    result.call \in {"owp", "rpi_owp"} =>
        /\ result.status = "ok"
        /\ IsRounded(result.out, ExactOwp(ArgGender, ArgTeam), ArgDigits)

\* C24 witness: A met B twice and C once, B beat C: the opponents' winning
\* percentages 1 and 0 weigh 2 and 1, and owp is 0.67.
C24_Witness ==
    /\ result.call \in {"owp", "rpi_owp"}
    /\ ArgDigits = 2
    /\ Len(matches) = 4
    /\ Meetings(ArgGender, "A", "B") = 2
    /\ Meetings(ArgGender, "A", "C") = 1
    /\ FloatEq(ExactOwp(ArgGender, "A"), <<2, 3>>)
    /\ FloatEq(result.out, <<67, 100>>)

\* owp of o as the package at hand returns it, rounded to ndigits.
OwpOf(o, ndigits) ==
    IF pkg = "build" THEN owp(ArgGender, matches, o, ndigits)
    ELSE rpi_owp(matches, o, ndigits).out

\* The finished matches t shares with its opponents.
TotalMeetings(g, t) ==
    SumOver([o \in OpponentsOf(g, t) |-> Meetings(g, t, o)], OpponentsOf(g, t))

\* C25: oowp returns on every list, cyclic match graphs included; where the
\* team shares a finished match with an opponent the value is the rounded
\* meeting-weighted average of the opponents' own rounded owp, each computed
\* on the whole list; where it shares none the build tree returns 0.0 (and
\* rpi/calculations.py divides by zero).
C25_OowpIsWeightedAverageOfOwp ==
    result.call \in {"oowp", "rpi_oowp"} =>
        IF TotalMeetings(ArgGender, ArgTeam) > 0
        THEN /\ result.status = "ok"
             /\ IsRounded(result.out,
                          WeightedAverage([o \in OpponentsOf(ArgGender, ArgTeam) |->
                                              OwpOf(o, ArgDigits)],
                                          ArgGender, ArgTeam,
                                          OpponentsOf(ArgGender, ArgTeam)),
                          ArgDigits)
        ELSE IF pkg = "build" THEN result.status = "ok" /\ result.out[1] = 0
        ELSE result.status = "ZeroDivisionError"

\* C25 witness: on the cycle A beats B, B beats C, C beats A every owp is 0.5
\* and oowp of A returns 0.5.
C25_Witness ==
    /\ result.call \in {"oowp", "rpi_oowp"}
    /\ Len(matches) = 3
    /\ \A t \in Teams :
          /\ Cardinality({i \in Counted(ArgGender, t, NoneT) :
                             ScoreFor(i, t) > ScoreAgainst(i, t)}) = 1
          /\ Cardinality({i \in Counted(ArgGender, t, NoneT) :
                             ScoreFor(i, t) < ScoreAgainst(i, t)}) = 1
          /\ FloatEq(OwpOf(t, ArgDigits), <<1, 2>>)
    /\ result.status = "ok"
    /\ FloatEq(result.out, <<1, 2>>)

(* ------------------------ Elo in list order --------------------------- *)

\* The score of a side of a finished match: 1, 0.5 or 0.
EloScore(own, other) ==
    IF own = other THEN <<1, 2>> ELSE IF own > other THEN <<1, 1>> ELSE <<0, 1>>

RECURSIVE RatingsAfter(_, _, _)
\* The ratings of the teams after the first k matches of the list final of
\* final matches: the k-th match reads the ratings after k - 1 matches and
\* changes those of its two teams only.
RatingsAfter(teams, final, k) ==
    IF k = 0 THEN [t \in teams |-> INITIAL_RATING]
    ELSE LET before == RatingsAfter(teams, final, k - 1)
             m   == final[k]
             new == update_ratings(before[m.home_team], before[m.away_team],
                                   EloScore(m.home_score, m.away_score),
                                   EloScore(m.away_score, m.home_score))
         IN  [t \in teams |-> IF t = m.home_team THEN new[1]
                              ELSE IF t = m.away_team THEN new[2]
                              ELSE before[t]]

\* C26: the ratings process_matches_with_elo returns are those reached by
\* taking the final matches one by one in the order of the list, each reading
\* the ratings the matches before it left and changing the ratings of its own
\* two teams only.
C26_EloAppliesMatchesInListOrder ==
    result.call = "process_matches_with_elo" =>
        result.out = RatingsAfter(TeamUniverse(matches), FinalOnly(matches),
                                  Len(FinalOnly(matches)))

\* C26 witness: A beats B, then B beats C; the same two matches in the other
\* order give other ratings.
C26_Witness ==
    /\ result.call = "process_matches_with_elo"
    /\ matches = <<Match("A", "B", 1, 0, "final"), Match("B", "C", 1, 0, "final")>>
    /\ result.out # process_matches_with_elo(<<matches[2], matches[1]>>)
    /\ result.out["A"] > INITIAL_RATING
    /\ result.out["C"] < INITIAL_RATING

(* --------------------------- the record of a team ---------------------- *)

\* The final matches of the list that contain the team.
FinalPlayedBy(ms, t) ==
    Cardinality({i \in DOMAIN ms : ms[i].game_state = "final" /\ contains(ms[i], t)})

\* C27: RecordIndex.calculate reports for each team the string W-L-D of its
\* final matches won, lost and drawn, so that W + L + D is the number of final
\* matches that contain the team, and lists the teams by falling 3 * W + D.
C27_RecordCountsFinalMatchesOnly ==
    result.call = "RecordIndex" =>
        /\ result.status = "ok"
        /\ NamesOf(result.out) = TeamUniverse(matches)
        /\ \A i \in DOMAIN result.out :
              LET t == result.out[i][2]
                  r == Record(WonBy(matches, t), LostBy(matches, t), DrawnBy(matches, t))
              IN  /\ result.out[i][3] = Record_str(r)
                  /\ result.out[i][3][1] + result.out[i][3][3] + result.out[i][3][5]
                        = FinalPlayedBy(matches, t)
        /\ \A i, j \in DOMAIN result.out :
              i < j => 3 * result.out[i][3][1] + result.out[i][3][5]
                          >= 3 * result.out[j][3][1] + result.out[j][3][5]

(* ------------------- the Colley system after every match --------------- *)

\* C and b after the first k matches of the list: the loop of calculate on
\* the prefix, with the teams and the team_index of the whole list.
ColleyAfter(ms, k) ==
    LET teams == list_team_names(ms)
        team_index == [t \in {teams[i] : i \in DOMAIN teams} |->
                          CHOOSE i \in DOMAIN teams : teams[i] = t]
        n  == Len(teams)
    IN  ColleyLoop(SubSeq(ms, 1, k), team_index, ColleyC0(n), [i \in 1 .. n |-> 2])

\* C28: after every prefix of the list C is symmetric, the diagonal entry of
\* a team is 2 plus its processed matches, the entry of two teams is minus
\* their processed meetings, every row sums to 2 and outweighs its other
\* entries, and b sums to the number of teams (b in units of 0.5: to twice
\* that number); the system is solved.
C28_ColleySystemInvariants ==
    result.call = "ColleyMatrixIndex" =>
        /\ result.status = "ok"
        /\ \A k \in 0 .. Len(matches) :
              LET teams == list_team_names(matches)
                  n     == Len(teams)
                  done  == SubSeq(matches, 1, k)
                  C     == ColleyAfter(matches, k).C
                  b     == ColleyAfter(matches, k).b
              IN  /\ \A i, j \in 1 .. n : C[i][j] = C[j][i]
                  /\ \A i \in 1 .. n : C[i][i] = 2 + PlayedBy(done, teams[i])
                  /\ \A i, j \in 1 .. n :
                        i # j => C[i][j] = 0 - MeetingsOf(done, teams[i], teams[j])
                  /\ \A i \in 1 .. n : SumOver(C[i], 1 .. n) = 2
                  /\ \A i \in 1 .. n :
                        C[i][i] > SumOver([j \in 1 .. n |-> Abs(C[i][j])], (1 .. n) \ {i})
                  /\ SumOver(b, 1 .. n) = 2 * n

\* C28 witness: A and B meet twice, once drawn, and B meets C: after the
\* three matches the entry of A and B is -2 and the diagonal of B is 5.
C28_Witness ==
    /\ result.call = "ColleyMatrixIndex"
    /\ result.status = "ok"
    /\ matches = <<Match("A", "B", 1, 0, "final"), Match("B", "A", 1, 1, "final"),
                   Match("B", "C", 0, 1, "final")>>
    /\ ColleyAfter(matches, 3).C = <<<<4, -2, 0>>, <<-2, 5, -1>>, <<0, -1, 3>>>>
    /\ ColleyAfter(matches, 2).C = <<<<4, -2, 0>>, <<-2, 4, 0>>, <<0, 0, 2>>>>

(* ------------------ matches that are not final and owp ----------------- *)

\* The list without its matches that are not final.
WithoutUnfinished(ms) == SelectSeq(ms, LAMBDA m : FinishedOf(m))

\* owp or oowp, as called, on another list ms: status and value.
OppCallOn(ms) ==
    LET a == result.args
    IN  CASE result.call = "owp" -> Ok(owp(a[1], ms, a[2], a[3]))
          [] result.call = "oowp" -> Ok(oowp(a[1], ms, a[2], a[3]))
          [] result.call = "rpi_owp" -> rpi_owp(ms, a[1], a[2])
          [] result.call = "rpi_oowp" -> rpi_oowp(ms, a[1], a[2])

\* C29: owp and oowp of a team are what they are on the list without its
\* matches that are not final: an opponent met only in such matches weighs
\* nothing.
C29_UnfinishedMatchesLeaveOwpAlone ==
    result.call \in {"owp", "oowp", "rpi_owp", "rpi_oowp"} =>
        /\ result.status = OppCallOn(WithoutUnfinished(matches)).status
        /\ result.out = OppCallOn(WithoutUnfinished(matches)).out

\* C29 witness: the team asked for has an opponent it met only in a match
\* that is not final, and a value above 0 is returned.
C29_Witness ==
    /\ result.call \in {"owp", "oowp", "rpi_owp", "rpi_oowp"}
    /\ \E o \in OpponentsOf(ArgGender, ArgTeam) : Meetings(ArgGender, ArgTeam, o) = 0
    /\ WithoutUnfinished(matches) # matches
    /\ result.status = "ok"
    /\ result.out[1] > 0

(* --------------------------- the unit interval ------------------------- *)

\* 0 <= x <= 1 for a quotient x with a positive denominator.
InUnit(x) == x[2] > 0 /\ x[1] >= 0 /\ x[1] <= x[2]

\* C30: wp, owp and oowp lie in [0, 1], and so does the rpi computed from
\* them; the meetings that divide are never negative in number, and the
\* weighted sum of values of [0, 1] is never above them.
C30_PercentagesInUnitInterval ==
    /\ result.call \in {"owp", "oowp", "rpi_owp", "rpi_oowp"} /\ result.status = "ok" =>
          /\ InUnit(result.out)
          /\ TotalMeetings(ArgGender, ArgTeam) >= 0
          /\ LET E == OpponentsOf(ArgGender, ArgTeam)
                 total == WeightedSum([o \in E |-> OwpOf(o, ArgDigits)],
                                      ArgGender, <<ArgTeam, E>>)
             IN  /\ ~FloatLt(total, <<0, 1>>)
                 /\ ~FloatLt(<<TotalMeetings(ArgGender, ArgTeam), 1>>, total)
    /\ result.call = "calculate_team_statistics" =>
          /\ InUnit(result.out[2].wp)
          /\ InUnit(result.out[2].owp)
          /\ InUnit(result.out[2].oowp)
          /\ InUnit(result.out[2].rpi)

\* C30 witness: a team that won all its matches, wp 1, with owp and oowp
\* above 0 and an rpi strictly between 0 and 1.
C30_Witness ==
    /\ result.call = "calculate_team_statistics"
    /\ FloatEq(result.out[2].wp, <<1, 1>>)
    /\ result.out[2].owp[1] > 0
    /\ result.out[2].oowp[1] > 0
    /\ result.out[2].rpi[1] > 0
    /\ FloatLt(result.out[2].rpi, <<1, 1>>)

====
